---- MODULE Spec2Model ----
(***************************************************************************)
(* A model of the blockquery package of Azure/tflint-helper: the dotted    *)
(* path evaluator QueryCty over cty values (query.go) and the comparison   *)
(* functions (compareResult.go).                                           *)
(*                                                                         *)
(* Strings are sequences of one-character strings, so that splitting a     *)
(* query at "." and parsing a numeral are computed, not assumed.  A call   *)
(* has one of three outcomes: a value with a nil error, an error, or a     *)
(* panic of the Go runtime / the cty library.                              *)
(***************************************************************************)
EXTENDS Integers, Sequences, FiniteSets, TLC

\* A call of a function of the blockquery package: its name, its arguments and its
\* outcome.
VARIABLES op, val, query, expected, out

\* A run of AzApiRule.Check: the rule, the content of the module, the place in
\* queryResource, the resources fetched, the position in them, the issues emitted
\* so far, the number of calls of the compare function, and what Check returned.
VARIABLES rule, content, pc, resources, pos, issues, compared, ret

\* The recursion of QueryCty: the paths of the calls of QueryCty that wait for the
\* call at hand, the outermost first.
VARIABLES callers

\* Calls that run at the same time, one for each thread of the caller, and the
\* filesystem of the package modulecontent, a variable of the package.
VARIABLES threads, AppFs

callVars == <<op, val, query, expected, out>>

checkVars == <<rule, content, pc, resources, pos, issues, compared, ret>>

otherVars == <<callers, threads, AppFs>>

vars == <<op, val, query, expected, out, rule, content, pc, resources, pos, issues, compared,
          ret, callers, threads, AppFs>>

(***************************************************************************)
(* Bounds of the model.                                                    *)
(***************************************************************************)
MaxSegs == 3
MaxListLen == 2
MaxExpected == 2
MaxBlocks == 2

(***************************************************************************)
(* Strings.                                                                *)
(***************************************************************************)
Empty == << >>

Dot == "."

Hash == <<"#">>

RECURSIVE IndexOfDot(_, _)
\* The position of the first "." of s at or after position i, 0 when there is none.
IndexOfDot(s, i) ==
  IF i > Len(s) THEN 0
  ELSE IF s[i] = Dot THEN i
  ELSE IndexOfDot(s, i + 1)

\* A splitter that cuts at the last "." instead of the first.
nextQuerySegmentLastDot(q) ==
  LET dots == {i \in 1..Len(q) : q[i] = Dot} IN
  IF dots = {} THEN [segment |-> q, remaining |-> Empty]
  ELSE LET p == CHOOSE i \in dots : \A j \in dots : j <= i IN
       [segment |-> SubSeq(q, 1, p - 1), remaining |-> SubSeq(q, p + 1, Len(q))]

\* nextQuerySegment: strings.Cut(query, "."), the text before the first "." and the
\* text after it.
nextQuerySegment(q) ==
  LET p == IndexOfDot(q, 1) IN
  IF p = 0 THEN [segment |-> q, remaining |-> Empty]
  ELSE [segment |-> SubSeq(q, 1, p - 1), remaining |-> SubSeq(q, p + 1, Len(q))]

DigitChars == <<"0", "1", "2", "3", "4", "5", "6", "7", "8", "9">>

IsDigit(c) == \E d \in 1..10 : DigitChars[d] = c

DigitVal(c) == (CHOOSE d \in 1..10 : DigitChars[d] = c) - 1

RECURSIVE DigitsVal(_, _)
\* The number written by the digits s, most significant first, after acc.
DigitsVal(s, acc) ==
  IF s = Empty THEN acc ELSE DigitsVal(Tail(s), 10 * acc + DigitVal(Head(s)))

\* strconv.Atoi: an optional sign, then one or more decimal digits.
Atoi(s) ==
  LET signed == s # Empty /\ Head(s) \in {"+", "-"}
      digits == IF signed THEN Tail(s) ELSE s
  IN IF digits = Empty \/ \E i \in 1..Len(digits) : ~IsDigit(digits[i])
     THEN [ok |-> FALSE, n |-> 0]
     ELSE [ok |-> TRUE,
           n |-> IF signed /\ Head(s) = "-" THEN 0 - DigitsVal(digits, 0)
                 ELSE DigitsVal(digits, 0)]

\* querySegmentPertainsToList: the wildcard is reported as the index -1.
querySegmentPertainsToList(segment) ==
  IF segment = Hash THEN [i |-> -1, isList |-> TRUE]
  ELSE LET a == Atoi(segment) IN
       IF ~a.ok THEN [i |-> 0, isList |-> FALSE] ELSE [i |-> a.n, isList |-> TRUE]

(***************************************************************************)
(* cty types and values, as far as the package uses them.                  *)
(***************************************************************************)
TString == [t |-> "string"]

TNumber == [t |-> "number"]

TBool == [t |-> "bool"]

TDynamic == [t |-> "dynamic"]

TList(ety) == [t |-> "list", e |-> ety]

TMap(ety) == [t |-> "map", me |-> ety]

TObject(atys) == [t |-> "object", at |-> atys]

TTuple(etys) == [t |-> "tuple", ets |-> etys]

StringVal(s) == [k |-> "string", str |-> s]

\* A number, held in tenths: NumberIntVal(2) is NumberVal(20), 1.5 is NumberVal(15).
NumberVal(tenths) == [k |-> "number", num |-> tenths]

NumberIntVal(n) == NumberVal(10 * n)

BoolVal(b) == [k |-> "bool", b |-> b]

UnknownVal(ty) == [k |-> "unknown", ty |-> ty]

NullVal(ty) == [k |-> "null", ty |-> ty]

\* A list value with its element type (cty.ListVal / cty.ListValEmpty).
ListOf(ety, elems) == [k |-> "list", ety |-> ety, elems |-> elems]

ObjectVal(attrs) == [k |-> "object", attrs |-> attrs]

MapVal(ety, melems) == [k |-> "map", mety |-> ety, melems |-> melems]

TupleVal(telems) == [k |-> "tuple", telems |-> telems]

RECURSIVE TypeOf(_)
\* Value.Type().
TypeOf(v) ==
  CASE v.k = "string" -> TString
    [] v.k = "number" -> TNumber
    [] v.k = "bool" -> TBool
    [] v.k = "unknown" -> v.ty
    [] v.k = "null" -> v.ty
    [] v.k = "list" -> TList(v.ety)
    [] v.k = "map" -> TMap(v.mety)
    [] v.k = "tuple" -> TTuple([i \in 1..Len(v.telems) |-> TypeOf(v.telems[i])])
    [] v.k = "object" -> TObject([n \in DOMAIN v.attrs |-> TypeOf(v.attrs[n])])

IsListType(ty) == ty.t = "list"

IsObjectType(ty) == ty.t = "object"

IsMapType(ty) == ty.t = "map"

IsTupleType(ty) == ty.t = "tuple"

IsKnownVal(v) == v.k # "unknown"

IsNullVal(v) == v.k = "null"

(***************************************************************************)
(* Outcomes of a call.                                                     *)
(***************************************************************************)
Ok(v) == [kind |-> "ok", val |-> v]

Err(e) == [kind |-> "err", err |-> e]

Panic(why) == [kind |-> "panic", why |-> why]

\* fmt.Errorf("query segments remain and value is not an object or map")
ErrNotObjectOrMap == [e |-> "query segments remain and value is not an object or map"]

\* fmt.Errorf("attribute %s not found in value", query)
ErrAttrNotFound(q) == [e |-> "attribute %s not found in value", query |-> q]

\* fmt.Errorf("query segment %s is a list operation but value is not a list", segment)
ErrNotAList(segment) ==
  [e |-> "query segment %s is a list operation but value is not a list", segment |-> segment]

\* fmt.Errorf("index %d out of bounds for list of length %d", i, val.LengthInt())
ErrIndexOutOfBounds(i, length) ==
  [e |-> "index %d out of bounds for list of length %d", i |-> i, length |-> length]

RECURSIVE ListValFrom(_, _, _)
\* cty.ListVal's scan of the element types: the list type's element type, or a
\* panic on two elements of different types.
ListValFrom(vals, i, ety) ==
  IF i > Len(vals) THEN Ok(ListOf(ety, vals))
  ELSE LET vt == TypeOf(vals[i]) IN
       IF ety = TDynamic THEN ListValFrom(vals, i + 1, vt)
       ELSE IF vt # TDynamic /\ vt # ety THEN Panic("inconsistent list element types")
       ELSE ListValFrom(vals, i + 1, ety)

\* cty.ListVal(vals): panics on an empty slice.
ListVal(vals) ==
  IF Len(vals) = 0 THEN Panic("must not call ListVal with empty slice")
  ELSE ListValFrom(vals, 1, TDynamic)

\* Value.LengthInt() of a value of list type: panics when it is unknown or null.
LengthInt(v) ==
  IF ~IsKnownVal(v) THEN Panic("value is not known")
  ELSE IF IsNullVal(v) THEN Panic("value is null")
  ELSE Ok(Len(v.elems))

\* Value.GetAttr(name) of a value of an object type that has the attribute.
GetAttr(v, name) ==
  IF ~IsKnownVal(v) THEN Ok(UnknownVal(v.ty.at[name]))
  ELSE IF IsNullVal(v) THEN Panic("interface conversion: interface {} is nil")
  ELSE Ok(v.attrs[name])

(***************************************************************************)
(* QueryCty and queryList (query.go).                                      *)
(***************************************************************************)
RECURSIVE QueryCty(_, _)
RECURSIVE wildcardLoop(_, _, _, _)

\* A loop that drops the elements whose query fails instead of returning the error.
wildcardLoopBestEffort(elems, idx, remaining, result) ==
  IF idx > Len(elems) THEN ListVal(result)
  ELSE IF remaining = Empty
       THEN wildcardLoop(elems, idx + 1, remaining, Append(result, elems[idx]))
       ELSE LET q == QueryCty(elems[idx], remaining) IN
            IF q.kind = "panic" THEN q
            ELSE IF q.kind = "err" THEN wildcardLoop(elems, idx + 1, remaining, result)
            ELSE wildcardLoop(elems, idx + 1, remaining, Append(result, q.val))

\* The loop of queryList over the elements (lines 56-70).
wildcardLoop(elems, idx, remaining, result) ==
  IF idx > Len(elems) THEN ListVal(result)
  ELSE IF remaining = Empty
       THEN wildcardLoop(elems, idx + 1, remaining, Append(result, elems[idx]))
       ELSE LET q == QueryCty(elems[idx], remaining) IN
            IF q.kind # "ok" THEN q
            ELSE wildcardLoop(elems, idx + 1, remaining, Append(result, q.val))

\* queryList without the test of line 72: an index past the end panics in Value.Index.
queryListNoBoundsCheck(v, i, segment, remaining) ==
  IF ~IsListType(TypeOf(v)) THEN Err(ErrNotAList(segment))
  ELSE LET n == LengthInt(v) IN
       IF n.kind = "panic" THEN n
       ELSE IF i = -1 THEN wildcardLoop(v.elems, 1, remaining, << >>)
       ELSE IF i < 0 \/ i >= n.val THEN Panic("index out of range")
       ELSE IF remaining = Empty THEN Ok(v.elems[i + 1])
       ELSE QueryCty(v.elems[i + 1], remaining)

\* queryList (lines 50-80); Value.Index panics on a negative key.
queryList(v, i, segment, remaining) ==
  IF ~IsListType(TypeOf(v)) THEN Err(ErrNotAList(segment))
  ELSE LET n == LengthInt(v) IN
       IF n.kind = "panic" THEN n
       ELSE IF i = -1 THEN wildcardLoop(v.elems, 1, remaining, << >>)
       ELSE IF i >= n.val THEN Err(ErrIndexOutOfBounds(i, n.val))
       ELSE IF i < 0 THEN Panic("element key for list must be non-negative integer")
       ELSE IF remaining = Empty THEN Ok(v.elems[i + 1])
       ELSE QueryCty(v.elems[i + 1], remaining)

\* QueryCty (lines 31-47); Type.AttributeTypes panics on a map type.
QueryCty(v, q) ==
  LET s == nextQuerySegment(q)
      p == querySegmentPertainsToList(s.segment)
      ty == TypeOf(v)
  IN IF p.isList THEN queryList(v, p.i, s.segment, s.remaining)
     ELSE IF ~(IsObjectType(ty) \/ IsMapType(ty)) THEN Err(ErrNotObjectOrMap)
     ELSE IF ~IsObjectType(ty) THEN Panic("AttributeTypes on non-object Type")
     ELSE IF s.segment \notin DOMAIN ty.at THEN Err(ErrAttrNotFound(q))
     ELSE LET a == GetAttr(v, s.segment) IN
          IF a.kind = "panic" THEN a
          ELSE IF s.remaining = Empty THEN a
          ELSE QueryCty(a.val, s.remaining)

\* The calls of QueryCty with the whole path of the caller in the wildcard loop.
RecursiveCallsWholePath(v, q) ==
  LET s == nextQuerySegment(q)
      p == querySegmentPertainsToList(s.segment)
      ty == TypeOf(v)
      rem == s.remaining
  IN IF rem = Empty THEN {}
     ELSE IF p.isList
     THEN (IF ~IsListType(ty) \/ LengthInt(v).kind = "panic" THEN {}
           ELSE IF p.i = -1
           THEN {[val |-> v.elems[i], query |-> q] : i \in 1..Len(v.elems)}
           ELSE IF p.i >= Len(v.elems) \/ p.i < 0 THEN {}
           ELSE {[val |-> v.elems[p.i + 1], query |-> rem]})
     ELSE IF ~IsObjectType(ty) \/ s.segment \notin DOMAIN ty.at THEN {}
     ELSE IF GetAttr(v, s.segment).kind = "panic" THEN {}
     ELSE {[val |-> GetAttr(v, s.segment).val, query |-> rem]}

\* The calls of QueryCty that the call QueryCty(v, q) makes itself or through
\* queryList (lines 46, 64, 79): none when nothing remains of the path; in the
\* wildcard loop one call for each element up to the first whose query fails.
RecursiveCalls(v, q) ==
  LET s == nextQuerySegment(q)
      p == querySegmentPertainsToList(s.segment)
      ty == TypeOf(v)
      rem == s.remaining
  IN IF rem = Empty THEN {}
     ELSE IF p.isList
     THEN (IF ~IsListType(ty) \/ LengthInt(v).kind = "panic" THEN {}
           ELSE IF p.i = -1
           THEN {[val |-> v.elems[i], query |-> rem] :
                   i \in {k \in 1..Len(v.elems) :
                            \A j \in 1..(k - 1) : QueryCty(v.elems[j], rem).kind = "ok"}}
           ELSE IF p.i >= Len(v.elems) \/ p.i < 0 THEN {}
           ELSE {[val |-> v.elems[p.i + 1], query |-> rem]})
     ELSE IF ~IsObjectType(ty) \/ s.segment \notin DOMAIN ty.at THEN {}
     ELSE IF GetAttr(v, s.segment).kind = "panic" THEN {}
     ELSE {[val |-> GetAttr(v, s.segment).val, query |-> rem]}

\* An append to one slice that all the calls share.
appendResultShared(ths, t, v) ==
  [u \in DOMAIN ths |-> [ths[u] EXCEPT !.result = Append(ths[t].result, v)]]

\* result = append(result, v) in the call of thread t (lines 56, 61, 68): the slice
\* is a local variable of the call.
appendResult(ths, t, v) == [ths EXCEPT ![t].result = Append(@, v)]

(***************************************************************************)
(* The cty operations compareResults relies on: convert.Convert and        *)
(* Value.Equals, for primitive values and lists of them.                   *)
(***************************************************************************)
RECURSIVE FmtNat(_)
\* The decimal digits of a natural number.
FmtNat(n) ==
  IF n < 10 THEN <<DigitChars[n + 1]>> ELSE FmtNat(n \div 10) \o <<DigitChars[(n % 10) + 1]>>

\* big.Float.Text('f', -1) of a nonnegative number held in tenths.
NumberText(tenths) ==
  IF tenths % 10 = 0 THEN FmtNat(tenths \div 10)
  ELSE FmtNat(tenths \div 10) \o <<".">> \o FmtNat(tenths % 10)

\* cty.ParseNumberVal on the numerals of this model: digits, or digits "." digit.
ParseNumber(s) ==
  LET p == IndexOfDot(s, 1)
      whole == IF p = 0 THEN s ELSE SubSeq(s, 1, p - 1)
      frac == IF p = 0 THEN Empty ELSE SubSeq(s, p + 1, Len(s))
      allDigits(d) == \A i \in 1..Len(d) : IsDigit(d[i])
  IN IF whole = Empty \/ ~allDigits(whole) \/ (p # 0 /\ (Len(frac) # 1 \/ ~allDigits(frac)))
     THEN [ok |-> FALSE, tenths |-> 0]
     ELSE [ok |-> TRUE,
           tenths |-> 10 * DigitsVal(whole, 0) + (IF p = 0 THEN 0 ELSE DigitsVal(frac, 0))]

TrueText == <<"t", "r", "u", "e">>

FalseText == <<"f", "a", "l", "s", "e">>

ConvFail == [kind |-> "err", err |-> [e |-> "conversion"]]

\* Whether convert.GetConversion knows a conversion between two primitive types.
PrimitiveConvertible(from, to) ==
  \/ from = to
  \/ from = TString /\ to \in {TNumber, TBool}
  \/ from \in {TNumber, TBool} /\ to = TString

\* The primitive conversions of convert.Convert applied to a known, non-null value.
ConvertPrimitive(v, to) ==
  CASE TypeOf(v) = to -> Ok(v)
    [] v.k = "number" /\ to = TString -> Ok(StringVal(NumberText(v.num)))
    [] v.k = "bool" /\ to = TString -> Ok(StringVal(IF v.b THEN TrueText ELSE FalseText))
    [] v.k = "string" /\ to = TNumber ->
         LET n == ParseNumber(v.str) IN IF n.ok THEN Ok(NumberVal(n.tenths)) ELSE ConvFail
    [] v.k = "string" /\ to = TBool ->
         IF v.str \in {TrueText, <<"1">>} THEN Ok(BoolVal(TRUE))
         ELSE IF v.str \in {FalseText, <<"0">>} THEN Ok(BoolVal(FALSE))
         ELSE ConvFail
    [] OTHER -> ConvFail

\* Conversion of one value of primitive type, which may be unknown or null.
ConvertElem(v, to) ==
  IF ~PrimitiveConvertible(TypeOf(v), to) THEN ConvFail
  ELSE IF v.k = "unknown" THEN Ok(UnknownVal(to))
  ELSE IF v.k = "null" THEN Ok(NullVal(to))
  ELSE ConvertPrimitive(v, to)

\* convert.Convert(got, wantType) for a known, non-null got.
Convert(v, to) ==
  IF to = TDynamic \/ TypeOf(v) = to THEN Ok(v)
  ELSE IF v.k = "list" /\ IsListType(to)
  THEN LET c == [i \in 1..Len(v.elems) |-> ConvertElem(v.elems[i], to.e)] IN
       IF \E i \in 1..Len(c) : c[i].kind # "ok" THEN ConvFail
       ELSE Ok(ListOf(to.e, [i \in 1..Len(c) |-> c[i].val]))
  ELSE IF v.k \in {"string", "number", "bool"} THEN ConvertPrimitive(v, to)
  ELSE ConvFail

RECURSIVE Equals(_, _)
RECURSIVE EqualsElems(_, _, _)

\* The element loop of Value.Equals on two lists of the same length.
EqualsElems(a, b, i) ==
  IF i > Len(a) THEN "true"
  ELSE LET eq == Equals(a[i], b[i]) IN
       IF eq = "unknown" THEN "unknown"
       ELSE IF eq = "false" THEN "false"
       ELSE EqualsElems(a, b, i + 1)

\* Value.Equals: "true", "false", or "unknown" for cty.UnknownVal(cty.Bool).
Equals(a, b) ==
  IF TypeOf(a) = TDynamic \/ TypeOf(b) = TDynamic THEN "unknown"
  ELSE IF TypeOf(a) # TypeOf(b) THEN "false"
  ELSE IF IsNullVal(a) \/ IsNullVal(b)
  THEN (IF IsNullVal(a) /\ IsNullVal(b) THEN "true"
        ELSE IF IsKnownVal(a) /\ IsKnownVal(b) THEN "false" ELSE "unknown")
  ELSE IF ~IsKnownVal(a) \/ ~IsKnownVal(b) THEN "unknown"
  ELSE IF a.k = "list"
  THEN (IF Len(a.elems) # Len(b.elems) THEN "false" ELSE EqualsElems(a.elems, b.elems, 1))
  ELSE IF a = b THEN "true" ELSE "false"

(***************************************************************************)
(* compareResult.go.                                                       *)
(***************************************************************************)
RECURSIVE compareLoop(_, _, _)
\* The loop of compareResults over the expected values (lines 79-89); Value.True()
\* panics on an unknown bool.
compareLoop(got, want, i) ==
  IF i > Len(want) THEN Ok(FALSE)
  ELSE LET cnv == Convert(got, TypeOf(want[i])) IN
       IF cnv.kind # "ok" THEN compareLoop(got, want, i + 1)
       ELSE LET eq == Equals(want[i], cnv.val) IN
            IF eq = "unknown" THEN Panic("Value.True on an unknown value")
            ELSE IF eq = "true" THEN Ok(TRUE)
            ELSE compareLoop(got, want, i + 1)

\* compareResults without the guard of line 76.
compareResultsNoGuard(got, want) == compareLoop(got, want, 1)

\* compareResults (lines 75-90).
compareResults(got, want) ==
  IF ~IsKnownVal(got) \/ IsNullVal(got) THEN Ok(FALSE) ELSE compareLoop(got, want, 1)

RECURSIVE JoinWith(_, _)
\* strings.Join(parts, sep) for the %s verb of a []string: space separated.
JoinWith(parts, sep) ==
  IF Len(parts) = 0 THEN Empty
  ELSE IF Len(parts) = 1 THEN parts[1]
  ELSE parts[1] \o sep \o JoinWith(Tail(parts), sep)

\* The elements an ElementIterator of a known list or tuple goes through.
ElementsOf(v) == IF v.k = "list" THEN v.elems ELSE v.telems

RECURSIVE fmtCty(_)
\* fmtCty with %d for every number, whole or not.
fmtCtyTruncating(in) ==
  LET ty == TypeOf(in) IN
  IF ty \in {TBool, TNumber, TString}
  THEN (IF IsNullVal(in) THEN Panic("value is null")
        ELSE IF ~IsKnownVal(in) THEN Panic("value is unknown")
        ELSE IF ty = TBool THEN Ok(IF in.b THEN TrueText ELSE FalseText)
        ELSE IF ty = TString THEN Ok(in.str)
        ELSE Ok(FmtNat(in.num \div 10)))
  ELSE IF IsListType(ty) \/ IsTupleType(ty)
  THEN (IF ~IsKnownVal(in) \/ IsNullVal(in) THEN Panic("LengthInt on unknown or null")
        ELSE LET res == [i \in 1..Len(ElementsOf(in)) |-> fmtCty(ElementsOf(in)[i])] IN
             IF \E i \in 1..Len(res) : res[i].kind # "ok"
             THEN Panic("accessor on unknown or null element")
             ELSE Ok(<<"[">> \o JoinWith([i \in 1..Len(res) |-> res[i].val], <<" ">>)
                     \o <<"]">>))
  ELSE Ok(<<"GoString", in>>)

\* fmtCty (lines 103-128): the text of a value, or the panic of the accessor it
\* calls; a []string under the %s verb is its elements between brackets with a
\* space between them.
fmtCty(in) ==
  LET ty == TypeOf(in) IN
  IF ty \in {TBool, TNumber, TString}
  THEN (IF IsNullVal(in) THEN Panic("value is null")
        ELSE IF ~IsKnownVal(in) THEN Panic("value is unknown")
        ELSE IF ty = TBool THEN Ok(IF in.b THEN TrueText ELSE FalseText)
        ELSE IF ty = TString THEN Ok(in.str)
        ELSE IF in.num % 10 = 0 THEN Ok(FmtNat(in.num \div 10))
        ELSE Ok(FmtNat(in.num \div 10) \o <<".">> \o FmtNat(in.num % 10)
                \o <<"0", "0", "0", "0", "0">>))
  ELSE IF IsListType(ty) \/ IsTupleType(ty)
  THEN (IF ~IsKnownVal(in) \/ IsNullVal(in) THEN Panic("LengthInt on unknown or null")
        ELSE LET res == [i \in 1..Len(ElementsOf(in)) |-> fmtCty(ElementsOf(in)[i])] IN
             IF \E i \in 1..Len(res) : res[i].kind # "ok"
             THEN Panic("accessor on unknown or null element")
             ELSE Ok(<<"[">> \o JoinWith([i \in 1..Len(res) |-> res[i].val], <<" ">>)
                     \o <<"]">>))
  ELSE Ok(<<"GoString", in>>)

\* The nil error.
Nil == [e |-> "nil"]

\* The verdict of a compare function: (passed, message, error).
Verdict(passed, msg, err) == [passed |-> passed, msg |-> msg, err |-> err]

NoMsg == [fmt |-> "", args |-> << >>]

\* fmt.Sprintf(format, args...)
Sprintf(format, args) == [fmt |-> format, args |-> args]

\* The format of the membership failure (line 69); {bq} is the backquote character.
FmtNotInExpected == "returned value {bq}%s{bq} not in expected values {bq}%v{bq}"

\* IsOneOf (lines 66-72); the arguments of Sprintf are evaluated left to right.
IsOneOf(got, exp) ==
  LET c == compareResults(got, exp) IN
  IF c.kind = "panic" THEN c
  ELSE IF ~c.val
  THEN LET a == fmtCty(got)
           l == ListVal(exp)
           b == IF l.kind = "ok" THEN fmtCty(l.val) ELSE l
       IN IF a.kind = "panic" THEN a
          ELSE IF b.kind = "panic" THEN b
          ELSE Ok(Verdict(FALSE, Sprintf(FmtNotInExpected, <<a.val, b.val>>), Nil))
  ELSE Ok(Verdict(TRUE, NoMsg, Nil))

\* allTrue that looks at the first result alone.
allTrueFirstOnly(in) == in = << >> \/ Head(in)

\* allTrue (lines 93-100).
allTrue(in) == \A i \in 1..Len(in) : in[i]

\* fmt.Errorf("expected a list but got %s", got.Type().FriendlyName())
ErrExpectedList(ty) == [e |-> "expected a list but got %s", friendlyName |-> ty]

\* The format of the membership failure of EachIsOneOf (line 60).
FmtEachNotInExpected == "returned values {bq}%s{bq} not in expected values {bq}%v{bq}"

\* EachIsOneOf with a message that shows the first element that matches nothing in
\* place of the whole list.
EachIsOneOfOffendingOnly(got, exp) ==
  IF ~IsListType(TypeOf(got)) THEN Ok(Verdict(FALSE, NoMsg, ErrExpectedList(TypeOf(got))))
  ELSE LET n == LengthInt(got) IN
       IF n.kind = "panic" THEN n
       ELSE LET results == [i \in 1..n.val |-> compareResults(got.elems[i], exp)] IN
            IF \E i \in 1..n.val : results[i].kind = "panic"
            THEN results[CHOOSE i \in 1..n.val :
                           /\ results[i].kind = "panic"
                           /\ \A j \in 1..(i - 1) : results[j].kind # "panic"]
            ELSE IF ~allTrue([i \in 1..n.val |-> results[i].val])
            THEN LET a == fmtCty(got.elems[CHOOSE i \in 1..n.val :
                                              /\ ~results[i].val
                                              /\ \A j \in 1..(i - 1) : results[j].val])
                     l == ListVal(exp)
                     b == IF l.kind = "ok" THEN fmtCty(l.val) ELSE l
                 IN IF a.kind = "panic" THEN a
                    ELSE IF b.kind = "panic" THEN b
                    ELSE Ok(Verdict(FALSE, Sprintf(FmtEachNotInExpected, <<a.val, b.val>>),
                                    Nil))
            ELSE Ok(Verdict(TRUE, NoMsg, Nil))

\* EachIsOneOf (lines 49-63): the elements are compared in order, so the first
\* comparison that panics ends the call.
EachIsOneOf(got, exp) ==
  IF ~IsListType(TypeOf(got)) THEN Ok(Verdict(FALSE, NoMsg, ErrExpectedList(TypeOf(got))))
  ELSE LET n == LengthInt(got) IN
       IF n.kind = "panic" THEN n
       ELSE LET results == [i \in 1..n.val |-> compareResults(got.elems[i], exp)] IN
            IF \E i \in 1..n.val : results[i].kind = "panic"
            THEN results[CHOOSE i \in 1..n.val :
                           /\ results[i].kind = "panic"
                           /\ \A j \in 1..(i - 1) : results[j].kind # "panic"]
            ELSE IF ~allTrue([i \in 1..n.val |-> results[i].val])
            THEN LET a == fmtCty(got)
                     l == ListVal(exp)
                     b == IF l.kind = "ok" THEN fmtCty(l.val) ELSE l
                 IN IF a.kind = "panic" THEN a
                    ELSE IF b.kind = "panic" THEN b
                    ELSE Ok(Verdict(FALSE, Sprintf(FmtEachNotInExpected, <<a.val, b.val>>),
                                    Nil))
            ELSE Ok(Verdict(TRUE, NoMsg, Nil))

\* A fixed message.
Literal(text) == [fmt |-> text, args |-> << >>]

\* IsKnown that takes a null value for an unknown one.
IsKnownOrNull(got, exp) ==
  IF ~IsKnownVal(got) \/ IsNullVal(got)
  THEN Ok(Verdict(FALSE, Literal("returned value is unknown"), Nil))
  ELSE Ok(Verdict(TRUE, NoMsg, Nil))

\* IsKnown (lines 16-21).
IsKnown(got, exp) ==
  IF ~IsKnownVal(got) THEN Ok(Verdict(FALSE, Literal("returned value is unknown"), Nil))
  ELSE Ok(Verdict(TRUE, NoMsg, Nil))

\* IsNotKnown (lines 24-29).
IsNotKnown(got, exp) ==
  IF IsKnownVal(got) THEN Ok(Verdict(FALSE, Literal("returned value is known"), Nil))
  ELSE Ok(Verdict(TRUE, NoMsg, Nil))

\* IsNotNull (lines 32-37).
IsNotNull(got, exp) ==
  IF IsNullVal(got)
  THEN Ok(Verdict(FALSE, Literal("returned value is null but not expected to be"), Nil))
  ELSE Ok(Verdict(TRUE, NoMsg, Nil))

\* IsNull (lines 40-45).
IsNull(got, exp) ==
  IF ~IsNullVal(got)
  THEN Ok(Verdict(FALSE, Literal("returned value is not null but expected to be"), Nil))
  ELSE Ok(Verdict(TRUE, NoMsg, Nil))

\* The compare functions by name, as a rule holds one in its CompareFunc field.
CompareFuncs == {"IsOneOf", "EachIsOneOf", "IsKnown", "IsNotKnown", "IsNotNull", "IsNull"}

\* The call r.CompareFunc(got, expected...).
CallCompareFunc(f, got, exp) ==
  CASE f = "IsOneOf" -> IsOneOf(got, exp)
    [] f = "EachIsOneOf" -> EachIsOneOf(got, exp)
    [] f = "IsKnown" -> IsKnown(got, exp)
    [] f = "IsNotKnown" -> IsNotKnown(got, exp)
    [] f = "IsNotNull" -> IsNotNull(got, exp)
    [] f = "IsNull" -> IsNull(got, exp)

(***************************************************************************)
(* The AzAPI rule (rules/azapi_rule.go) and the blocks it is given          *)
(* (modulecontent).                                                         *)
(***************************************************************************)
At == "@"

RECURSIVE Split(_, _)
\* strings.Split(s, sep) for a separator of one character.
Split(s, sep) ==
  LET at == {i \in 1..Len(s) : s[i] = sep} IN
  IF at = {} THEN <<s>>
  ELSE LET p == CHOOSE i \in at : \A j \in at : i <= j IN
       <<SubSeq(s, 1, p - 1)>> \o Split(SubSeq(s, p + 1, Len(s)), sep)

\* The letters of the model in upper and in lower case.
UpperCase == <<"T", "U">>

LowerCase == <<"t", "u">>

\* The simple case folding of a character.
Fold(c) ==
  IF \E i \in 1..Len(UpperCase) : UpperCase[i] = c
  THEN LowerCase[CHOOSE i \in 1..Len(UpperCase) : UpperCase[i] = c]
  ELSE c

\* strings.EqualFold
EqualFold(a, b) == Len(a) = Len(b) /\ \A i \in 1..Len(a) : Fold(a[i]) = Fold(b[i])

\* The byte of a character.
Byte(c) ==
  CASE IsDigit(c) -> 48 + DigitVal(c)
    [] c = "-" -> 45
    [] c = "." -> 46
    [] c = At -> 64
    [] c = "T" -> 84
    [] c = "U" -> 85
    [] c = "t" -> 116
    [] c = "u" -> 117

RECURSIVE StringLess(_, _)
\* a < b on Go strings: byte by byte, a proper prefix being the lesser.
StringLess(a, b) ==
  IF b = Empty THEN FALSE
  ELSE IF a = Empty THEN TRUE
  ELSE IF Byte(Head(a)) # Byte(Head(b)) THEN Byte(Head(a)) < Byte(Head(b))
  ELSE StringLess(Tail(a), Tail(b))

\* checkAzApiType (lines 189-208).
checkAzApiType(gotType, wantType, minimumApiVersion, maximumApiVersion) ==
  LET gotSplit == Split(gotType, At) IN
  IF Len(gotSplit) # 2 THEN FALSE
  ELSE IF ~EqualFold(gotSplit[1], wantType) THEN FALSE
  ELSE IF minimumApiVersion # Empty /\ StringLess(gotSplit[2], minimumApiVersion) THEN FALSE
  ELSE IF maximumApiVersion # Empty /\ StringLess(maximumApiVersion, gotSplit[2]) THEN FALSE
  ELSE TRUE

\* An attribute of a block: absent, or an expression that evaluates to a value or to
\* diagnostics with errors.
NoAttr == [present |-> FALSE]

Attr(v) == [present |-> TRUE, diags |-> FALSE, v |-> v]

BadAttr == [present |-> TRUE, diags |-> TRUE]

\* A block: its first label and its type and body attributes.
Block(label, type, body) == [label |-> label, type |-> type, body |-> body]

\* AzApiRule.LabelOne()
LabelOne == "azapi_resource"

\* The fields of an AzApiRule the check uses (NewAzApiRuleQueryMustExist,
\* NewAzApiRuleQueryOptionalExist).
NewAzApiRule(mustExist, resourceType, minimumApiVersion, maximumApiVersion, q, compareFunc, expectedResults) ==
  [Query |-> q, CompareFunc |-> compareFunc, expected |-> expectedResults,
   maximumApiVersion |-> maximumApiVersion, minimumApiVersion |-> minimumApiVersion,
   resourceType |-> resourceType, mustExist |-> mustExist]

NewAzApiRuleQueryMustExist(resourceType, minimumApiVersion, maximumApiVersion, q, compareFunc, expectedResults) ==
  NewAzApiRule(TRUE, resourceType, minimumApiVersion, maximumApiVersion, q, compareFunc,
               expectedResults)

NewAzApiRuleQueryOptionalExist(resourceType, minimumApiVersion, maximumApiVersion, q, compareFunc, expectedResults) ==
  NewAzApiRule(FALSE, resourceType, minimumApiVersion, maximumApiVersion, q, compareFunc,
               expectedResults)

\* No filter: every block of the module.
blocksUnfiltered(blocks) == blocks

\* blocksFilterByLabelOne: the blocks whose first label is the rule's, in order.
blocksFilterByLabelOne(blocks) == SelectSeq(blocks, LAMBDA b : b.label = LabelOne)

\* errors.As(err, &notExistsErr) for the *QueryErrorNotFound of the blockquery package:
\* the error of a field that the object lacks.
IsQueryErrorNotFound(err) == err.e = "attribute %s not found in value"

\* runner.EmitIssue(r, message, range) for the resource at position i.
Issue(i, message, range) == [resource |-> i, message |-> message, range |-> range]

\* fmt.Errorf(format, cause)
Errorf(format, cause) == [e |-> format, cause |-> cause]

\* What the body of the loop of queryResource (lines 128-185) does with one resource:
\* "continue" with the issues it emitted, "return" with an error, or a panic.
Continue(emitted, comparisons) ==
  [kind |-> "continue", emitted |-> emitted, comparisons |-> comparisons]

Return(err, comparisons) == [kind |-> "return", err |-> err, comparisons |-> comparisons]

Crash(why, comparisons) == [kind |-> "panic", why |-> why, comparisons |-> comparisons]

\* The loop body up to the evaluation of the body attribute (lines 129-158): an
\* outcome, or the value to query.
beforeQuery(r, i, resource) ==
  IF ~resource.type.present
  THEN Continue(<<Issue(i, Literal("Resource does not have a {bq}type{bq} attribute"),
                        "DefRange")>>, 0)
  ELSE IF resource.type.diags
  THEN Return(Errorf("could not evaluate type expression: %s", "diags"), 0)
  ELSE IF resource.type.v.k # "string"
  THEN Crash("AsString on a value that is not a known string", 0)
  ELSE IF ~checkAzApiType(resource.type.v.str, r.resourceType, r.minimumApiVersion,
                          r.maximumApiVersion)
  THEN Continue(<< >>, 0)
  ELSE IF ~resource.body.present
  THEN Continue(<<Issue(i, Literal("Resource does not have a {bq}body{bq} attribute"),
                        "DefRange")>>, 0)
  ELSE IF resource.body.diags
  THEN Return(Errorf("could not evaluate body expression: %s", "diags"), 0)
  ELSE [kind |-> "query", v |-> resource.body.v]

\* The handling of a query error that emits the not-found issue whether or not the
\* query must exist.
queryFailedAlwaysEmit(r, i, err) ==
  IF IsQueryErrorNotFound(err) THEN Continue(<<Issue(i, err, "body.Range")>>, 0)
  ELSE Return(Errorf("could not query value: %w", err), 0)

\* The handling of a query error that goes on to the next resource whatever the
\* error.
queryFailedNeverReturn(r, i, err) ==
  IF IsQueryErrorNotFound(err) /\ r.mustExist THEN Continue(<<Issue(i, err, "body.Range")>>, 0)
  ELSE Continue(<< >>, 0)

\* The handling of an error of QueryCty (lines 160-173).
queryFailed(r, i, err) ==
  IF IsQueryErrorNotFound(err)
  THEN (IF r.mustExist THEN Continue(<<Issue(i, err, "body.Range")>>, 0)
        ELSE Continue(<< >>, 0))
  ELSE Return(Errorf("could not query value: %w", err), 0)

\* The handling of a verdict that emits the issue of a failed comparison twice.
afterCompareTwice(i, c) ==
  IF c.kind = "panic" THEN Crash(c.why, 1)
  ELSE IF c.val.err # Nil THEN Return(Errorf("could not compare values: %w", c.val.err), 1)
  ELSE IF ~c.val.passed
  THEN Continue(<<Issue(i, c.val.msg, "body.Range"), Issue(i, c.val.msg, "body.Range")>>, 1)
  ELSE Continue(<< >>, 1)

\* The handling of the outcome c of the compare function (lines 175-184).
afterCompare(i, c) ==
  IF c.kind = "panic" THEN Crash(c.why, 1)
  ELSE IF c.val.err # Nil THEN Return(Errorf("could not compare values: %w", c.val.err), 1)
  ELSE IF ~c.val.passed THEN Continue(<<Issue(i, c.val.msg, "body.Range")>>, 1)
  ELSE Continue(<< >>, 1)

\* The handling of the outcome qr of QueryCty (lines 160-184).
afterQuery(r, i, qr) ==
  IF qr.kind = "panic" THEN Crash(qr.why, 0)
  ELSE IF qr.kind = "err" THEN queryFailed(r, i, qr.err)
  ELSE afterCompare(i, CallCompareFunc(r.CompareFunc, qr.val, r.expected))

\* The query and the comparison (lines 159-184).
queryAndCompare(r, i, v) == afterQuery(r, i, QueryCty(v, r.Query))

\* The body of the loop of queryResource (lines 128-185) for the resource at
\* position i.
queryOneResource(r, i, resource) ==
  IF beforeQuery(r, i, resource).kind = "query" THEN queryAndCompare(r, i, resource.body.v)
  ELSE beforeQuery(r, i, resource)

(***************************************************************************)
(* The compare functions over gjson results.  A Go value is nil, a bool, a *)
(* float64, a string or a slice; a gjson.Result holds the type of the JSON *)
(* value, its raw text, and the string or the number it stands for.        *)
(***************************************************************************)
GoNil == [g |-> "nil"]

GoBool(b) == [g |-> "bool", b |-> b]

GoNumber(n) == [g |-> "float64", n |-> n]

GoString(s) == [g |-> "string", s |-> s]

GoSlice(elems) == [g |-> "slice", elems |-> elems]

\* json.Marshal(v): the raw text, one token that stands for the text of v.
Marshal(v) == <<[json |-> v]>>

\* gjson.Result{Type, Raw, Str, Num}
Result(ty, raw, str, num) == [Type |-> ty, Raw |-> raw, Str |-> str, Num |-> num]

\* NewResult (result.go lines 13-31)
NewResult(ty, v) ==
  Result(ty, Marshal(v),
         IF ty = "String" THEN v.s ELSE Empty,
         IF ty = "Number" THEN v.n ELSE 0)

\* gjson.Result{}: what a query of a path that is not in the document returns.
AbsentResult == Result("Null", Empty, Empty, 0)

\* The result gjson parses from the text of a JSON value.
ParseResult(v) ==
  CASE v.g = "nil" -> NewResult("Null", v)
    [] v.g = "bool" -> NewResult(IF v.b THEN "True" ELSE "False", v)
    [] v.g = "float64" -> NewResult("Number", v)
    [] v.g = "string" -> NewResult("String", v)
    [] OTHER -> NewResult("JSON", v)

\* Result.Exists()
ResultExists(t) == t.Type # "Null" \/ Len(t.Raw) # 0

\* Result.IsArray()
ResultIsArray(t) == t.Type = "JSON" /\ t.Raw[1].json.g = "slice"

\* Result.Array(): no element for a null, the result itself for a value that is
\* not an array, the elements of an array.
ResultArray(t) ==
  IF t.Type = "Null" THEN << >>
  ELSE IF ~ResultIsArray(t) THEN <<t>>
  ELSE LET elems == t.Raw[1].json.elems
       IN [i \in 1..Len(elems) |-> ParseResult(elems[i])]

\* Result.Value()
ResultValue(t) ==
  CASE t.Type = "String" -> GoString(t.Str)
    [] t.Type = "False" -> GoBool(FALSE)
    [] t.Type = "Number" -> GoNumber(t.Num)
    [] t.Type = "True" -> GoBool(TRUE)
    [] t.Type = "JSON" -> t.Raw[1].json
    [] OTHER -> GoNil

\* compareResults over results (moduleContent_test.go lines 161-169), with
\* reflect.DeepEqual as the equality of the Go values.
ResultCompareResults(got, want) ==
  \E i \in 1..Len(want) : ResultValue(got) = ResultValue(want[i])

\* Exists (lines 92-97)
Exists(got, exp) ==
  IF ~ResultExists(got)
  THEN Ok(Verdict(FALSE, Literal("returned value does not exist but expected"), Nil))
  ELSE Ok(Verdict(TRUE, NoMsg, Nil))

\* NotExists (lines 100-105)
NotExists(got, exp) ==
  IF ResultExists(got)
  THEN Ok(Verdict(FALSE, Literal("returned value exists but not expected"), Nil))
  ELSE Ok(Verdict(TRUE, NoMsg, Nil))

\* The format of the one-element case of EachIsOneOf (line 126).
FmtOneNotInExpected == "returned value {bq}%s{bq} not in expected values {bq}%s{bq}"

\* EachIsOneOf over results (lines 118-138)
ResultEachIsOneOf(got, exp) ==
  IF ~ResultExists(got) THEN Ok(Verdict(TRUE, NoMsg, Nil))
  ELSE IF Len(ResultArray(got)) = 1
  THEN (IF ~ResultCompareResults(got, exp)
        THEN Ok(Verdict(FALSE, Sprintf(FmtOneNotInExpected, <<got, exp>>), Nil))
        ELSE Ok(Verdict(TRUE, NoMsg, Nil)))
  ELSE LET a == ResultArray(got)
           results == [i \in 1..Len(a) |-> ResultCompareResults(a[i], exp)]
       IN IF ~allTrue(results)
          THEN Ok(Verdict(FALSE, Sprintf(FmtNotInExpected, <<got, exp>>), Nil))
          ELSE Ok(Verdict(TRUE, NoMsg, Nil))

\* EachIsOneOfAndMustExist without its check of existence.
EachIsOneOfAndMustExistVacuous(got, exp) == ResultEachIsOneOf(got, exp)

\* EachIsOneOfAndMustExist (lines 109-114)
EachIsOneOfAndMustExist(got, exp) ==
  IF ~ResultExists(got)
  THEN Ok(Verdict(FALSE, Literal("returned value does not exist but expected"), Nil))
  ELSE ResultEachIsOneOf(got, exp)

\* IsOneOf over results (lines 149-158)
ResultIsOneOf(got, exp) ==
  IF ~ResultExists(got) THEN Ok(Verdict(TRUE, NoMsg, Nil))
  ELSE IF ~ResultCompareResults(got, exp)
  THEN Ok(Verdict(FALSE, Sprintf(FmtNotInExpected, <<got, exp>>), Nil))
  ELSE Ok(Verdict(TRUE, NoMsg, Nil))

\* IsOneOfAndMustExist (lines 141-146)
IsOneOfAndMustExist(got, exp) ==
  IF ~ResultExists(got)
  THEN Ok(Verdict(FALSE, Literal("returned value does not exist but expected"), Nil))
  ELSE ResultIsOneOf(got, exp)

(***************************************************************************)
(* The inputs of the model.                                               *)
(***************************************************************************)
FA == <<"a">>

FB == <<"b">>

\* The segments queries are built from, and the signed numerals.
CoreSegs == {FA, FB, Hash, <<"0">>, <<"1">>}

SignedSegs == {<<"-", "1">>, <<"-", "2">>, <<"+", "1">>}

RECURSIVE JoinDots(_)
\* The query made of the segments, "." between them.
JoinDots(segs) == JoinWith(segs, <<Dot>>)

RECURSIVE SeqsUpTo(_, _)
\* The sequences over S of length at most n.
SeqsUpTo(S, n) ==
  IF n = 0 THEN {<< >>}
  ELSE LET shorter == SeqsUpTo(S, n - 1) IN
       shorter \cup {Append(s, x) : s \in {t \in shorter : Len(t) = n - 1}, x \in S}

CoreSegLists == SeqsUpTo(CoreSegs, MaxSegs)

SignedSegLists ==
  {<<s>> : s \in SignedSegs}
    \cup {<<s, c>> : s \in SignedSegs, c \in CoreSegs}
    \cup {<<c, s>> : c \in CoreSegs, s \in SignedSegs}

\* A few numerals of more than one digit or past the end of every list.
LongSegLists == {<< <<"2">> >>, << <<"3">> >>, << <<"1", "0">> >>, << <<"0", "1">> >>}

SegLists == CoreSegLists \cup SignedSegLists \cup LongSegLists

\* Single segments for the classifier, well formed or not.
Segments ==
  CoreSegs \cup SignedSegs
    \cup {Empty, <<"2">>, <<"1", "0">>, <<"0", "1">>, <<"a", "1">>, <<"1", "a">>, <<"#", "1">>,
          <<"#", "#">>, <<"-">>, <<"+">>, <<"-", "a">>, <<"+", "0">>, <<"-", "0">>}

Paths == {JoinDots(l) : l \in SegLists}

\* Strings with empty segments, for the splitter alone.
DotStrings == {<<Dot>>, <<"a", Dot>>, <<Dot, "a">>, <<"a", Dot, Dot, "b">>, <<Dot, Dot>>}

SX == StringVal(<<"x">>)

SY == StringVal(<<"y">>)

\* The list 1, 2, ..., n of numbers.
Iota(n) == ListOf(TNumber, [i \in 1..n |-> NumberIntVal(i)])

NumLists == {Iota(n) : n \in 0..MaxListLen}

\* Lists of lists of numbers, the rows of length 1 or 2.
RowLists == {ListOf(TList(TNumber), r) : r \in SeqsUpTo({Iota(1), Iota(2)}, MaxListLen)}

\* An object with the fields a (a number) and b (a string).
Item(i) == ObjectVal((FA :> NumberIntVal(i)) @@ (FB :> SX))

ItemType == TObject((FA :> TNumber) @@ (FB :> TString))

\* The list of the objects Item(1), ..., Item(n).
Items(n) == ListOf(ItemType, [i \in 1..n |-> Item(i)])

ItemLists == {Items(n) : n \in 0..MaxListLen}

\* Lists of objects whose field a holds a list of numbers.
Holder(l) == ObjectVal(FA :> l)

HolderLists ==
  {ListOf(TObject(FA :> TList(TNumber)), [i \in 1..n |-> Holder(Iota(i))]) : n \in 1..MaxListLen}

Leaves == {SX, NumberIntVal(1), BoolVal(TRUE), UnknownVal(TString), NullVal(TString)}

Unknowns ==
  {UnknownVal(TString), UnknownVal(TList(TString)), UnknownVal(TObject(FA :> TString)),
   UnknownVal(ItemType), UnknownVal(TList(ItemType)), UnknownVal(TDynamic)}

Nulls == {NullVal(TString), NullVal(TList(TNumber)), NullVal(TObject(FA :> TString))}

Objects ==
  {ObjectVal(FA :> x) : x \in Leaves \cup Unknowns \cup Nulls}
    \cup {ObjectVal((FA :> SX) @@ (FB :> SY)), ObjectVal(<< >>),
          ObjectVal(<<"-", "1">> :> SX), ObjectVal(FA :> ObjectVal(<<"+", "1">> :> SX))}
    \cup {ObjectVal(FA :> ObjectVal(FB :> x)) : x \in {SX, UnknownVal(TString)}}
    \cup {ObjectVal(FA :> ObjectVal(FA :> ObjectVal(FB :> SX)))}
    \cup {ObjectVal(FA :> l) : l \in ItemLists \cup NumLists}

Mixed ==
  {ListOf(TString, <<SX, UnknownVal(TString)>>),
   ListOf(TObject(FA :> TString), <<ObjectVal(FA :> SX), UnknownVal(TObject(FA :> TString))>>),
   ListOf(TList(TNumber), <<Iota(1), Iota(0)>>),
   ListOf(TList(TNumber), <<Iota(2), UnknownVal(TList(TNumber))>>),
   MapVal(TString, FA :> SX),
   TupleVal(<<SX, NumberIntVal(1)>>)}

\* The value trees QueryCty is applied to.
Values ==
  Leaves \cup Unknowns \cup Nulls \cup NumLists \cup RowLists \cup ItemLists
    \cup HolderLists \cup Objects \cup Mixed

\* The values and the expected values the compare functions are applied to.
S1 == StringVal(<<"1">>)

STrue == StringVal(TrueText)

NumStrings == ListOf(TString, <<S1, StringVal(<<"2">>)>>)

NullObject == NullVal(TObject(FA :> TString))

CmpGot ==
  {SX, S1, STrue, NumberIntVal(1), NumberVal(15), BoolVal(TRUE), NullVal(TString),
   NullVal(TList(TNumber)), NullObject, UnknownVal(TString), UnknownVal(TDynamic), Iota(2),
   NumStrings}

CmpWant ==
  {SX, SY, S1, STrue, NumberIntVal(1), BoolVal(TRUE), NullVal(TString), NullObject,
   UnknownVal(TString), UnknownVal(TDynamic), Iota(2), Iota(1)}

ExpectedSeqs == SeqsUpTo(CmpWant, MaxExpected)

\* The results EachIsOneOf is applied to: lists of strings and of numbers, some with
\* an unknown or a null element, lists of lists, and values that are not lists.
StringLists ==
  {ListOf(TString, l) : l \in SeqsUpTo({SX, SY, S1, UnknownVal(TString), NullVal(TString)},
                                       MaxListLen)}

EachGot ==
  StringLists \cup NumLists \cup RowLists
    \cup {SX, NumberIntVal(1), BoolVal(TRUE), NullVal(TString), NullVal(TList(TNumber)),
          UnknownVal(TList(TString)), UnknownVal(TString), UnknownVal(TDynamic),
          ObjectVal(FA :> SX), TupleVal(<<SX, SX>>), MapVal(TString, FA :> SX)}

EachWant == {SX, SY, S1, NumberIntVal(1), NullVal(TString), UnknownVal(TString), Iota(2)}

EachExpectedSeqs == SeqsUpTo(EachWant, MaxExpected)

\* The results and the expected values of the four predicates on known-ness and
\* null-ness.
PredGot == CmpGot \cup EachGot

PredExpectedSeqs == {<< >>, <<SX>>, <<NullVal(TString), UnknownVal(TString)>>}

\* The values fmtCty renders: those above, numbers that are not whole, the two
\* booleans, tuples, and lists of lists.
FmtValues ==
  PredGot \cup Values
    \cup {NumberVal(25), NumberVal(105), NumberIntVal(0), NumberIntVal(12), BoolVal(FALSE),
          StringVal(Empty), TupleVal(<<SX, NumberIntVal(1), BoolVal(TRUE)>>), TupleVal(<< >>),
          TupleVal(<<SX, UnknownVal(TString)>>), TupleVal(<<Iota(2), TupleVal(<<SX, SY>>)>>),
          ListOf(TNumber, <<NumberVal(15), NumberIntVal(2)>>),
          ListOf(TBool, <<BoolVal(TRUE), BoolVal(FALSE)>>), UnknownVal(TTuple(<<TString>>)),
          NullVal(TBool), UnknownVal(TNumber)}

\* The rules and the module contents Check is run on.  Every rule is for the
\* resource type t.
RT == <<"t">>

V2 == <<"2">>

QA0 == <<"a", ".", "0">>

QA2 == <<"a", ".", "2">>

Rules ==
  {NewAzApiRuleQueryMustExist(RT, Empty, Empty, q, "IsOneOf", <<SX>>) : q \in {FA, QA0, QA2}}
    \cup {NewAzApiRuleQueryOptionalExist(RT, Empty, Empty, q, "IsOneOf", <<SX>>) :
            q \in {FA, QA0}}
    \cup {NewAzApiRuleQueryMustExist(RT, Empty, Empty, FA, f, << >>) :
            f \in {"EachIsOneOf", "IsNotKnown", "IsNull"}}
    \cup {NewAzApiRuleQueryOptionalExist(RT, Empty, Empty, FA, "EachIsOneOf", e) :
            e \in {<<SX>>, <<SX, SY>>}}
    \cup {NewAzApiRuleQueryMustExist(RT, lo, hi, FA, "IsOneOf", <<SX>>) :
            lo \in {Empty, V2}, hi \in {Empty, V2}}

\* The type t@2, which every rule above accepts.
TypeT2 == Attr(StringVal(<<"t", "@", "2">>))

BodyAX == Attr(ObjectVal(FA :> SX))

BodyAY == Attr(ObjectVal(FA :> SY))

\* Blocks of the rule's type with bodies of every sort, blocks without a type, and a
\* block that is not an azapi_resource.
CoreBlocks ==
  {Block(LabelOne, TypeT2, b) :
     b \in {BodyAX, BodyAY, Attr(ObjectVal(FB :> SX)),
            Attr(ObjectVal(FA :> ListOf(TString, <<SX, SY>>))),
            Attr(ObjectVal(FA :> UnknownVal(TString))), Attr(SX), NoAttr, BadAttr}}
    \cup {Block(LabelOne, t, BodyAY) : t \in {NoAttr, BadAttr, Attr(UnknownVal(TString))}}
    \cup {Block("other_resource", TypeT2, BodyAY)}

\* Blocks with other type strings, and a body that does not pass the rules above.
TypeStrings ==
  {<<"T", "@", "2">>, <<"t", "@", "1">>, <<"t", "@", "3">>, <<"u", "@", "2">>, <<"t">>,
   <<"t", "@", "2", "@", "2">>, <<"t", "@", "1", "0">>, <<"t", "@">>}

TypedBlocks == {Block(LabelOne, Attr(StringVal(t)), BodyAY) : t \in TypeStrings}

\* The contents of a module: diagnostics with errors, or its blocks.
Contents ==
  {[diags |-> TRUE, blocks |-> << >>]}
    \cup {[diags |-> FALSE, blocks |-> bs] : bs \in SeqsUpTo(CoreBlocks, MaxBlocks)}
    \cup {[diags |-> FALSE, blocks |-> <<b>>] : b \in TypedBlocks}
    \cup {[diags |-> FALSE, blocks |-> <<b, Block(LabelOne, TypeT2, BodyAY)>>] :
            b \in TypedBlocks}

\* The Go values of the JSON documents: scalars, null, and arrays of them.
GoScalars == {GoString(<<"x">>), GoNumber(1), GoBool(TRUE), GoNil}

GoSlices == {GoSlice(s) : s \in SeqsUpTo(GoScalars, MaxListLen)}

\* The results a query returns: nothing, or the result of a value of the document.
GotResults == {AbsentResult} \cup {ParseResult(v) : v \in GoScalars \cup GoSlices}

\* The expected results, as NewStringResults, NewNumberResults and NewComplexResults
\* build them.
WantResults ==
  {NewResult("String", GoString(<<"x">>)), NewResult("String", GoString(<<"y">>)),
   NewResult("Number", GoNumber(1)), NewResult("JSON", GoSlice(<<GoString(<<"x">>)>>))}

WantResultSeqs == SeqsUpTo(WantResults, MaxExpected)

\* No value, and no outcome yet.
NoVal == [k |-> "none"]

NoOut == [kind |-> "none"]

\* The threads of the caller.
ThreadIds == {1, 2}

\* A call a thread is about to make: the function, its arguments, the place in it,
\* the local variables of the wildcard loop of queryList, and the outcome.
Invocation(f, v, q, e) ==
  [op |-> f, val |-> v, query |-> q, expected |-> e, pc |-> "called", idx |-> 0,
   result |-> << >>, out |-> NoOut]

Invocations ==
  {Invocation("QueryCty", Items(2), JoinDots(<<Hash, FA>>), << >>),
   Invocation("QueryCty", Items(2), JoinDots(<<Hash, FB>>), << >>),
   Invocation("QueryCty", Iota(2), Hash, << >>),
   Invocation("QueryCty", Holder(Iota(2)), JoinDots(<<FA, <<"1">> >>), << >>),
   Invocation("IsOneOf", SX, Empty, <<SY, SX>>),
   Invocation("EachIsOneOf", Iota(2), Empty, <<NumberIntVal(1)>>),
   Invocation("IsNotNull", Items(2), Empty, << >>),
   Invocation("initEvaluator", NoVal, Empty, << >>)}

\* The compare functions over results.
ResultCompareFuncs ==
  {"Exists", "NotExists", "gjson.IsOneOf", "gjson.EachIsOneOf", "IsOneOfAndMustExist",
   "EachIsOneOfAndMustExist"}

\* The four predicates that take no account of the expected values.
StatePredicates == {"IsKnown", "IsNotKnown", "IsNotNull", "IsNull"}

(***************************************************************************)
(* The specification: every call is one step from its inputs to its        *)
(* outcome.                                                                *)
(***************************************************************************)
\* No run of Check.
NoCheck ==
  /\ rule = NoVal /\ content = NoVal /\ pc = "idle" /\ resources = << >> /\ pos = 0
  /\ issues = << >> /\ compared = 0 /\ ret = NoOut

\* No call of QueryCty waits for another.
NoCallers == callers = << >>

\* afero.NewOsFs(), the value AppFs is declared with (part_002 lines 17-19).
OsFs == "OsFs"

\* No calls at the same time.
NoThreads == threads = << >> /\ AppFs = OsFs

InitCall ==
  /\ out = NoOut
  /\ NoCheck
  /\ NoCallers
  /\ NoThreads
  /\ \/ op = "QueryCty" /\ val \in Values /\ query \in Paths /\ expected = << >>
     \/ op = "nextQuerySegment" /\ val = NoVal /\ query \in Paths \cup DotStrings
          /\ expected = << >>
     \/ op = "querySegmentPertainsToList" /\ val = NoVal /\ query \in Segments
          /\ expected = << >>
     \/ op = "IsOneOf" /\ val \in CmpGot /\ query = Empty /\ expected \in ExpectedSeqs
     \/ op = "EachIsOneOf" /\ val \in EachGot /\ query = Empty
          /\ expected \in EachExpectedSeqs
     \/ op \in StatePredicates /\ val \in PredGot /\ query = Empty
          /\ expected \in PredExpectedSeqs
     \/ op = "fmtCty" /\ val \in FmtValues /\ query = Empty /\ expected = << >>
     \/ op \in ResultCompareFuncs /\ val \in GotResults /\ query = Empty
          /\ expected \in WantResultSeqs

InitCheck ==
  /\ op = "Check" /\ val = NoVal /\ query = Empty /\ expected = << >> /\ out = NoOut
  /\ rule \in Rules /\ content \in Contents
  /\ pc = "start" /\ resources = << >> /\ pos = 0
  /\ issues = << >> /\ compared = 0 /\ ret = NoOut
  /\ NoCallers
  /\ NoThreads

\* Two threads, each about to make one call, some on the same value.
InitThreads ==
  /\ op = "threads" /\ val = NoVal /\ query = Empty /\ expected = << >> /\ out = NoOut
  /\ NoCheck
  /\ NoCallers
  /\ threads \in [ThreadIds -> Invocations]
  /\ AppFs = OsFs

Init == InitCall \/ InitCheck \/ InitThreads

CallQueryCty ==
  /\ op = "QueryCty" /\ out = NoOut
  /\ out' = QueryCty(val, query)
  /\ UNCHANGED <<op, val, query, expected>>
  /\ UNCHANGED checkVars
  /\ UNCHANGED otherVars

\* A call of QueryCty from QueryCty or queryList: the call at hand waits, and the
\* call it makes is the call at hand.
QueryCtyRecurse ==
  /\ op = "QueryCty" /\ out = NoOut
  /\ \E c \in RecursiveCalls(val, query) :
       /\ val' = c.val
       /\ query' = c.query
  /\ callers' = Append(callers, query)
  /\ UNCHANGED <<op, expected, out>>
  /\ UNCHANGED checkVars
  /\ UNCHANGED <<threads, AppFs>>

CallNextQuerySegment ==
  /\ op = "nextQuerySegment" /\ out = NoOut
  /\ out' = Ok(nextQuerySegment(query))
  /\ UNCHANGED <<op, val, query, expected>>
  /\ UNCHANGED checkVars
  /\ UNCHANGED otherVars

CallQuerySegmentPertainsToList ==
  /\ op = "querySegmentPertainsToList" /\ out = NoOut
  /\ out' = Ok(querySegmentPertainsToList(query))
  /\ UNCHANGED <<op, val, query, expected>>
  /\ UNCHANGED checkVars
  /\ UNCHANGED otherVars

CallIsOneOf ==
  /\ op = "IsOneOf" /\ out = NoOut
  /\ out' = IsOneOf(val, expected)
  /\ UNCHANGED <<op, val, query, expected>>
  /\ UNCHANGED checkVars
  /\ UNCHANGED otherVars

CallEachIsOneOf ==
  /\ op = "EachIsOneOf" /\ out = NoOut
  /\ out' = EachIsOneOf(val, expected)
  /\ UNCHANGED <<op, val, query, expected>>
  /\ UNCHANGED checkVars
  /\ UNCHANGED otherVars

CallIsKnown ==
  /\ op = "IsKnown" /\ out = NoOut
  /\ out' = IsKnown(val, expected)
  /\ UNCHANGED <<op, val, query, expected>>
  /\ UNCHANGED checkVars
  /\ UNCHANGED otherVars

CallIsNotKnown ==
  /\ op = "IsNotKnown" /\ out = NoOut
  /\ out' = IsNotKnown(val, expected)
  /\ UNCHANGED <<op, val, query, expected>>
  /\ UNCHANGED checkVars
  /\ UNCHANGED otherVars

CallIsNotNull ==
  /\ op = "IsNotNull" /\ out = NoOut
  /\ out' = IsNotNull(val, expected)
  /\ UNCHANGED <<op, val, query, expected>>
  /\ UNCHANGED checkVars
  /\ UNCHANGED otherVars

CallIsNull ==
  /\ op = "IsNull" /\ out = NoOut
  /\ out' = IsNull(val, expected)
  /\ UNCHANGED <<op, val, query, expected>>
  /\ UNCHANGED checkVars
  /\ UNCHANGED otherVars

CallFmtCty ==
  /\ op = "fmtCty" /\ out = NoOut
  /\ out' = fmtCty(val)
  /\ UNCHANGED <<op, val, query, expected>>
  /\ UNCHANGED checkVars
  /\ UNCHANGED otherVars

CallExists ==
  /\ op = "Exists" /\ out = NoOut
  /\ out' = Exists(val, expected)
  /\ UNCHANGED <<op, val, query, expected>>
  /\ UNCHANGED checkVars
  /\ UNCHANGED otherVars

CallNotExists ==
  /\ op = "NotExists" /\ out = NoOut
  /\ out' = NotExists(val, expected)
  /\ UNCHANGED <<op, val, query, expected>>
  /\ UNCHANGED checkVars
  /\ UNCHANGED otherVars

CallResultIsOneOf ==
  /\ op = "gjson.IsOneOf" /\ out = NoOut
  /\ out' = ResultIsOneOf(val, expected)
  /\ UNCHANGED <<op, val, query, expected>>
  /\ UNCHANGED checkVars
  /\ UNCHANGED otherVars

CallResultEachIsOneOf ==
  /\ op = "gjson.EachIsOneOf" /\ out = NoOut
  /\ out' = ResultEachIsOneOf(val, expected)
  /\ UNCHANGED <<op, val, query, expected>>
  /\ UNCHANGED checkVars
  /\ UNCHANGED otherVars

CallIsOneOfAndMustExist ==
  /\ op = "IsOneOfAndMustExist" /\ out = NoOut
  /\ out' = IsOneOfAndMustExist(val, expected)
  /\ UNCHANGED <<op, val, query, expected>>
  /\ UNCHANGED checkVars
  /\ UNCHANGED otherVars

CallEachIsOneOfAndMustExist ==
  /\ op = "EachIsOneOfAndMustExist" /\ out = NoOut
  /\ out' = EachIsOneOfAndMustExist(val, expected)
  /\ UNCHANGED <<op, val, query, expected>>
  /\ UNCHANGED checkVars
  /\ UNCHANGED otherVars

\* The first step of the call of thread t: the whole call, unless it is a wildcard
\* over a list, whose loop (query.go lines 56-70) starts with an empty result of
\* its own.  initEvaluator reads the package variable AppFs (part_002 line 103).
ThreadCall(t) ==
  LET th == threads[t]
      s == nextQuerySegment(th.query)
      p == querySegmentPertainsToList(s.segment)
  IN /\ th.pc = "called"
     /\ threads' =
          [threads EXCEPT ![t] =
             IF th.op = "initEvaluator" THEN [th EXCEPT !.pc = "done", !.out = Ok(AppFs)]
             ELSE IF th.op # "QueryCty"
             THEN [th EXCEPT !.pc = "done",
                             !.out = CallCompareFunc(th.op, th.val, th.expected)]
             ELSE IF p.isList /\ p.i = -1 /\ IsListType(TypeOf(th.val))
                       /\ LengthInt(th.val).kind = "ok"
             THEN [th EXCEPT !.pc = "loop", !.idx = 1, !.result = << >>]
             ELSE [th EXCEPT !.pc = "done", !.out = QueryCty(th.val, th.query)]]
     /\ UNCHANGED AppFs

\* One turn of the wildcard loop of thread t, or the return after the last turn.
ThreadLoop(t) ==
  LET th == threads[t]
      rem == nextQuerySegment(th.query).remaining
      elems == th.val.elems
  IN /\ th.pc = "loop"
     /\ threads' =
          IF th.idx > Len(elems)
          THEN [threads EXCEPT ![t] = [th EXCEPT !.pc = "done", !.out = ListVal(th.result)]]
          ELSE IF rem = Empty
          THEN appendResult([threads EXCEPT ![t].idx = th.idx + 1], t, elems[th.idx])
          ELSE IF QueryCty(elems[th.idx], rem).kind # "ok"
          THEN [threads EXCEPT ![t] =
                  [th EXCEPT !.pc = "done", !.out = QueryCty(elems[th.idx], rem)]]
          ELSE appendResult([threads EXCEPT ![t].idx = th.idx + 1], t,
                            QueryCty(elems[th.idx], rem).val)
     /\ UNCHANGED AppFs

\* A step of one of the threads.
ThreadStep ==
  /\ op = "threads"
  /\ \E t \in ThreadIds : ThreadCall(t) \/ ThreadLoop(t)
  /\ UNCHANGED callVars
  /\ UNCHANGED checkVars
  /\ UNCHANGED callers

\* gostub.Stub(&AppFs, mockFs(content)) and stub.Reset() of the tests
\* (moduleContent_test.go lines 37-38): the only writes of AppFs.
StubAppFs ==
  /\ op = "threads"
  /\ AppFs' = (IF AppFs = OsFs THEN "mockFs" ELSE OsFs)
  /\ \E t \in ThreadIds : threads[t].pc # "done"
  /\ UNCHANGED threads
  /\ UNCHANGED callVars
  /\ UNCHANGED checkVars
  /\ UNCHANGED callers

\* queryResource up to its loop (lines 124-127): FetchBlocks, and the return on
\* diagnostics with errors.
CheckFetchBlocks ==
  /\ pc = "start"
  /\ IF content.diags
     THEN /\ ret' = Err(Errorf("could not get partial content: %s", "diags"))
          /\ pc' = "done"
          /\ UNCHANGED <<resources, pos>>
     ELSE /\ resources' = blocksFilterByLabelOne(content.blocks)
          /\ pos' = 1
          /\ pc' = "loop"
          /\ ret' = ret
  /\ UNCHANGED <<rule, content, issues, compared>>
  /\ UNCHANGED callVars
  /\ UNCHANGED otherVars

\* The effect of the outcome o of the loop body on the run.
Proceed(o) ==
  /\ compared' = compared + o.comparisons
  /\ IF o.kind = "continue"
     THEN /\ issues' = issues \o o.emitted
          /\ pos' = pos + 1
          /\ UNCHANGED <<pc, ret>>
     ELSE /\ ret' = (IF o.kind = "return" THEN Err(o.err) ELSE Panic(o.why))
          /\ pc' = "done"
          /\ UNCHANGED <<issues, pos>>

\* One turn of the loop of queryResource (lines 128-185).
CheckResource ==
  /\ pc = "loop" /\ pos <= Len(resources)
  /\ Proceed(queryOneResource(rule, pos, resources[pos]))
  /\ UNCHANGED <<rule, content, resources>>
  /\ UNCHANGED callVars
  /\ UNCHANGED otherVars

\* The return after the last resource (line 186).
CheckReturn ==
  /\ pc = "loop" /\ pos > Len(resources)
  /\ ret' = Ok(Nil)
  /\ pc' = "done"
  /\ UNCHANGED <<rule, content, resources, pos, issues, compared>>
  /\ UNCHANGED callVars
  /\ UNCHANGED otherVars

Next ==
  \/ CallQueryCty
  \/ QueryCtyRecurse
  \/ CallNextQuerySegment
  \/ CallQuerySegmentPertainsToList
  \/ CallIsOneOf
  \/ CallEachIsOneOf
  \/ CallIsKnown
  \/ CallIsNotKnown
  \/ CallIsNotNull
  \/ CallIsNull
  \/ CallFmtCty
  \/ CallExists
  \/ CallNotExists
  \/ CallResultIsOneOf
  \/ CallResultEachIsOneOf
  \/ CallIsOneOfAndMustExist
  \/ CallEachIsOneOfAndMustExist
  \/ CheckFetchBlocks
  \/ CheckResource
  \/ CheckReturn
  \/ ThreadStep
  \/ StubAppFs

Spec == Init /\ [][Next]_vars

(***************************************************************************)
(* The notions the claims are stated in.                                   *)
(***************************************************************************)
\* A call of f has returned.
Returned(f) == op = f /\ out # NoOut

RECURSIVE SplitAtDots(_)
\* The segments of a non-empty query, split at every ".".
SplitAtDots(q) ==
  LET p == IndexOfDot(q, 1) IN
  IF p = 0 THEN <<q>> ELSE <<SubSeq(q, 1, p - 1)>> \o SplitAtDots(SubSeq(q, p + 1, Len(q)))

\* The segments of the query of the call; the empty query has none.
Segs == IF query = Empty THEN << >> ELSE SplitAtDots(query)

\* The classification of a segment: wildcard, index (an unsigned numeral), field.
IsWildcardSeg(seg) == seg = Hash

IsIndexSeg(seg) == seg # Empty /\ \A i \in 1..Len(seg) : IsDigit(seg[i])

IsFieldSeg(seg) == ~IsWildcardSeg(seg) /\ ~IsIndexSeg(seg)

IsKnownObject(v) == v.k = "object"

IsKnownList(v) == v.k = "list"

\* Whether one field or index segment can be applied to v by hand.
CanStep(v, seg) ==
  \/ IsFieldSeg(seg) /\ IsKnownObject(v) /\ seg \in DOMAIN v.attrs
  \/ IsIndexSeg(seg) /\ IsKnownList(v) /\ DigitsVal(seg, 0) < Len(v.elems)

\* The value one applicable segment leads to.
StepTo(v, seg) == IF IsFieldSeg(seg) THEN v.attrs[seg] ELSE v.elems[DigitsVal(seg, 0) + 1]

RECURSIVE WalkTo(_, _)
\* The descent by hand along field and index segments, as far as they apply and no
\* Unknown is met: the value reached and the segments left.
WalkTo(v, segs) ==
  IF segs = << >> \/ v.k = "unknown" \/ ~CanStep(v, Head(segs))
  THEN [at |-> v, rest |-> segs]
  ELSE WalkTo(StepTo(v, Head(segs)), Tail(segs))

IsNotFound(o) == o.kind = "err" /\ o.err.e = "attribute %s not found in value"

IsTypeMismatch(o) ==
  /\ o.kind = "err"
  /\ o.err.e \in {"query segments remain and value is not an object or map",
                  "query segment %s is a list operation but value is not a list"}

IsIndexOutOfRange(o) ==
  o.kind = "err" /\ o.err.e = "index %d out of bounds for list of length %d"

(***************************************************************************)
(* The claims.                                                             *)
(***************************************************************************)
\* C1: when the descent along the path meets an Unknown value, at the root or after
\* any number of field and index segments, QueryCty returns that Unknown value with a
\* nil error, whatever segments are left and whatever the Unknown's type.
C1_UnknownShortCircuits ==
  Returned("QueryCty") =>
    LET w == WalkTo(val, Segs) IN w.at.k = "unknown" => out = Ok(w.at)

\* C2: on a non-empty path of field segments, each present in the object it is
\* applied to, QueryCty returns with a nil error the value of the nested lookup
\* root.f1.f2...fn.
C2_FieldPathIsNestedLookup ==
  Returned("QueryCty") =>
    LET l == Segs IN
    (/\ l # << >>
     /\ \A i \in 1..Len(l) : IsFieldSeg(l[i])
     /\ WalkTo(val, l).rest = << >>
     /\ val.k # "unknown")
    => out = Ok(WalkTo(val, l).at)

\* The result of the remaining path on one element (the element itself when no
\* path remains).
OnElement(e, rest) == IF rest = << >> THEN Ok(e) ELSE QueryCty(e, JoinDots(rest))

\* C3: a wildcard over a list of N >= 0 elements, the remaining path succeeding on
\* each, yields a list of exactly N elements, the i-th the result of the remaining
\* path on the i-th element.
C3_WildcardCollectsEveryElement ==
  Returned("QueryCty") =>
    LET l == Segs IN
    (/\ l # << >> /\ Head(l) = Hash
     /\ IsKnownList(val)
     /\ \A i \in 1..Len(val.elems) : OnElement(val.elems[i], Tail(l)).kind = "ok")
    => /\ out.kind = "ok"
       /\ out.val.k = "list"
       /\ Len(out.val.elems) = Len(val.elems)
       /\ \A i \in 1..Len(val.elems) :
            out.val.elems[i] = OnElement(val.elems[i], Tail(l)).val

\* C4: a segment is taken as the wildcard iff it is "#", as an index iff it is an
\* unsigned numeral, as a field name otherwise; and only "#" makes QueryCty return
\* the elements of a list.
C4_SegmentClassification ==
  /\ Returned("querySegmentPertainsToList") =>
       /\ (out.val.isList /\ out.val.i = -1) <=> IsWildcardSeg(query)
       /\ (out.val.isList /\ out.val.i # -1) <=> IsIndexSeg(query)
       /\ ~out.val.isList <=> IsFieldSeg(query)
  /\ (Returned("QueryCty") /\ IsKnownList(val) /\ val.elems # << >> /\ out = Ok(val))
       => query = Hash

\* C5: at the first segment that cannot be applied, to a known value that is not
\* null: a field an object lacks gives the not-found error and nothing else does; an
\* index or wildcard on a value that is no list, and a field on a value that is no
\* object, give a type-mismatch error.
C5_NotFoundVersusTypeMismatch ==
  Returned("QueryCty") =>
    LET l == Segs
        w == WalkTo(val, l)
    IN (/\ w.rest # << >>
        /\ w.at.k \notin {"unknown", "null"}
        /\ ~(IsKnownList(w.at) /\ Head(w.rest) = Hash))
       => LET seg == Head(w.rest) IN
          /\ (IsFieldSeg(seg) /\ IsKnownObject(w.at)) => IsNotFound(out)
          /\ (IsFieldSeg(seg) /\ ~IsKnownObject(w.at)) => IsTypeMismatch(out)
          /\ (~IsFieldSeg(seg) /\ ~IsKnownList(w.at)) => IsTypeMismatch(out)
          /\ (~IsFieldSeg(seg) /\ IsKnownList(w.at)) => IsIndexOutOfRange(out)
          /\ (IsNotFound(out) /\ Hash \notin {l[i] : i \in 1..Len(l)})
               => IsFieldSeg(seg) /\ IsObjectType(TypeOf(w.at))

\* C6: an index segment i on a list of length L continues with (or, the path ending
\* there, returns) the element at position i when i < L, and fails with the
\* index-out-of-range error naming i and L when i >= L.
C6_IndexInOrOutOfBounds ==
  Returned("QueryCty") =>
    LET l == Segs IN
    (l # << >> /\ IsIndexSeg(Head(l)) /\ IsKnownList(val))
    => LET i == DigitsVal(Head(l), 0)
           L == Len(val.elems)
       IN IF i < L THEN out = OnElement(val.elems[i + 1], Tail(l))
          ELSE out = Err(ErrIndexOutOfBounds(i, L))

\* An index at the end of a one-element list has been refused.
C6_Witness ==
  Returned("QueryCty") /\ val = Iota(1) /\ query = <<"1">> /\ out = Err(ErrIndexOutOfBounds(1, 1))

\* C7: the empty path returns the value it is applied to, unchanged, with a nil error.
C7_EmptyPathReturnsValue ==
  (Returned("QueryCty") /\ query = Empty) => out = Ok(val)

\* C8: when the remaining path fails on an element of a wildcard traversal, the call
\* fails with the outcome of the first such element; it never returns a list of the
\* elements that succeeded.
C8_WildcardPropagatesFailure ==
  Returned("QueryCty") =>
    LET l == Segs IN
    (/\ Len(l) > 1 /\ Head(l) = Hash
     /\ IsKnownList(val)
     /\ \E i \in 1..Len(val.elems) : OnElement(val.elems[i], Tail(l)).kind # "ok")
    => LET first == CHOOSE i \in 1..Len(val.elems) :
                      /\ OnElement(val.elems[i], Tail(l)).kind # "ok"
                      /\ \A j \in 1..(i - 1) : OnElement(val.elems[j], Tail(l)).kind = "ok"
       IN out.kind # "ok" /\ out = OnElement(val.elems[first], Tail(l))

\* The second row is too short for the index the first row has.
C8_Witness ==
  /\ Returned("QueryCty")
  /\ val = ListOf(TList(TNumber), <<Iota(2), Iota(1)>>)
  /\ query = <<"#", ".", "1">>
  /\ out = Err(ErrIndexOutOfBounds(1, 1))

\* C9: nextQuerySegment splits at the first ".": the segment holds no "."; without a
\* "." the segment is the whole path and nothing remains; with one, segment, "." and
\* remainder make up the path.
C9_SplitsAtFirstDot ==
  Returned("nextQuerySegment") =>
    LET seg == out.val.segment
        rest == out.val.remaining
    IN /\ \A i \in 1..Len(seg) : seg[i] # Dot
       /\ IF \A i \in 1..Len(query) : query[i] # Dot
          THEN seg = query /\ rest = Empty
          ELSE seg \o <<Dot>> \o rest = query

\* "a.b.a" has been split into "a" and "b.a".
C9_Witness ==
  /\ Returned("nextQuerySegment")
  /\ query = <<"a", ".", "b", ".", "a">>
  /\ out = Ok([segment |-> <<"a">>, remaining |-> <<"b", ".", "a">>])

Passed(o) == o.kind = "ok" /\ o.val.passed

\* Structural equality as the specification has it: Null equals Null alone, Unknown
\* equals nothing.
SpecEqual(a, b) ==
  IF a.k = "unknown" \/ b.k = "unknown" THEN FALSE
  ELSE IF a.k = "null" \/ b.k = "null" THEN a.k = "null" /\ b.k = "null"
  ELSE a = b

\* The actual value converts to the candidate's type and equals it there.
MatchesCandidate(v, w) ==
  LET c == Convert(v, TypeOf(w)) IN c.kind = "ok" /\ Equals(w, c.val) = "true"

\* The comparison with the candidate has no verdict: it is Unknown.
UndecidedCandidate(v, w) ==
  LET c == Convert(v, TypeOf(w)) IN c.kind = "ok" /\ Equals(w, c.val) = "unknown"

IsLiteralOf(str, num) ==
  /\ num.k = "number" /\ num.num % 10 = 0
  /\ str.k = "string" /\ str.str = FmtNat(num.num \div 10)

\* C11: an integral Number and the String holding its decimal literal are not
\* compatible kinds: IsOneOf of the one against the other as the only expected value
\* does not pass, in either direction.
C11_NumberAndItsLiteralDoNotMatch ==
  (Returned("IsOneOf") /\ Len(expected) = 1
     /\ (IsLiteralOf(val, expected[1]) \/ IsLiteralOf(expected[1], val)))
  => ~Passed(out)

\* C12: on a list result EachIsOneOf passes iff every element of the list, taken on
\* its own, passes IsOneOf against the same expected values; one element that does
\* not match among elements that do makes it fail, and a pass is (true, "", nil).
C12_EachPassesIffEveryElementPasses ==
  (Returned("EachIsOneOf") /\ IsKnownList(val)) =>
    /\ Passed(out) <=> \A i \in 1..Len(val.elems) : Passed(IsOneOf(val.elems[i], expected))
    /\ Passed(out) => out = Ok(Verdict(TRUE, NoMsg, Nil))
    /\ (\E i \in 1..Len(val.elems) : IsOneOf(val.elems[i], expected).kind = "ok"
                                      /\ ~Passed(IsOneOf(val.elems[i], expected)))
         => (out.kind = "ok" => ~out.val.passed /\ out.val.err = Nil)

\* The list x, y fails against the one expected value x, which its first element
\* matches.
C12_Witness ==
  /\ Returned("EachIsOneOf")
  /\ val = ListOf(TString, <<SX, SY>>)
  /\ expected = <<SX>>
  /\ out.kind = "ok" /\ ~out.val.passed /\ out.val.err = Nil

\* C13: EachIsOneOf on a result that is not a List returns (false, "", error) with a
\* non-nil error, and no other call of a compare function returns an error.
C13_OnlyNonListIsAnError ==
  /\ (Returned("EachIsOneOf") /\ val.k # "list") =>
       /\ out.kind = "ok"
       /\ ~out.val.passed /\ out.val.msg = NoMsg /\ out.val.err # Nil
  /\ (op \in CompareFuncs /\ out # NoOut /\ out.kind = "ok" /\ out.val.err # Nil) =>
       op = "EachIsOneOf" /\ val.k # "list"

\* C14: IsKnown passes iff the value is not Unknown and IsNotKnown iff it is; IsNull
\* passes iff the value is Null and IsNotNull iff it is not; of each pair exactly one
\* passes; the expected values play no part; the error is nil; the one that fails
\* returns its fixed message.
C14_KnownAndNullPredicates ==
  (op \in StatePredicates /\ out # NoOut) =>
    /\ out.kind = "ok" /\ out.val.err = Nil
    /\ op = "IsKnown" => (Passed(out) <=> val.k # "unknown")
    /\ op = "IsNotKnown" => (Passed(out) <=> val.k = "unknown")
    /\ op = "IsNull" => (Passed(out) <=> val.k = "null")
    /\ op = "IsNotNull" => (Passed(out) <=> val.k # "null")
    /\ Passed(IsKnown(val, expected)) # Passed(IsNotKnown(val, expected))
    /\ Passed(IsNull(val, expected)) # Passed(IsNotNull(val, expected))
    /\ out = CallCompareFunc(op, val, << >>)
    /\ Passed(out) => out.val.msg = NoMsg
    /\ ~Passed(out) =>
         out.val.msg =
           Literal(CASE op = "IsKnown" -> "returned value is unknown"
                     [] op = "IsNotKnown" -> "returned value is known"
                     [] op = "IsNotNull" -> "returned value is null but not expected to be"
                     [] op = "IsNull" -> "returned value is not null but expected to be")

\* IsKnown passes on a null value, whatever is expected.
C14_Witness ==
  /\ Returned("IsKnown")
  /\ val = NullVal(TString)
  /\ expected # << >>
  /\ Passed(out)

\* C15: IsOneOf is total: for every result and every sequence of expected values it
\* returns (true, "", nil) or (false, message, nil), never an error, never a crash.
C15_IsOneOfIsTotal ==
  Returned("IsOneOf") =>
    /\ out.kind = "ok"
    /\ out.val.err = Nil
    /\ out.val.passed => out.val.msg = NoMsg
    /\ ~out.val.passed => out.val.msg.fmt = FmtNotInExpected

\* A call of IsOneOf or EachIsOneOf has returned a membership failure.
MembershipFailure ==
  /\ op \in {"IsOneOf", "EachIsOneOf"} /\ out # NoOut
  /\ out.kind = "ok" /\ ~out.val.passed /\ out.val.err = Nil

\* The texts between brackets, sep between them.
Bracketed(parts, sep) == <<"[">> \o JoinWith(parts, sep) \o <<"]">>

\* The arguments of a membership message: the whole result, then the expected values
\* in the order supplied, between brackets.
MessageArgs ==
  <<fmtCty(val).val,
    Bracketed([i \in 1..Len(expected) |-> fmtCty(expected[i]).val], <<" ">>)>>

RECURSIVE Renderable(_)
\* A Bool, a Number, a String, or a list or tuple of such values, none of them null
\* or unknown.
Renderable(v) ==
  \/ v.k \in {"bool", "number", "string"}
  \/ v.k \in {"list", "tuple"}
       /\ \A i \in 1..Len(ElementsOf(v)) : Renderable(ElementsOf(v)[i])

RECURSIVE Rendering(_, _)
\* The rendering of a renderable value, sep between the elements of a list: true or
\* false, the digits of a whole number, a number with six decimals otherwise, the
\* characters of a string.
Rendering(v, sep) ==
  CASE v.k = "bool" -> IF v.b THEN TrueText ELSE FalseText
    [] v.k = "string" -> v.str
    [] v.k = "number" ->
         IF v.num % 10 = 0 THEN FmtNat(v.num \div 10)
         ELSE FmtNat(v.num \div 10) \o <<".">> \o FmtNat(v.num % 10)
                \o <<"0", "0", "0", "0", "0">>
    [] OTHER ->
         Bracketed([i \in 1..Len(ElementsOf(v)) |-> Rendering(ElementsOf(v)[i], sep)], sep)

RECURSIVE HasNoRendering(_)
\* A null or unknown value of a primitive, list or tuple type, or a list or tuple
\* that holds such a value.
HasNoRendering(v) ==
  IF v.k \in {"null", "unknown"}
  THEN TypeOf(v).t \in {"bool", "number", "string", "list", "tuple"}
  ELSE /\ v.k \in {"list", "tuple"}
       /\ \E i \in 1..Len(ElementsOf(v)) : HasNoRendering(ElementsOf(v)[i])

AtQueriedResource ==
  /\ pc = "loop" /\ pos <= Len(resources)
  /\ beforeQuery(rule, pos, resources[pos]).kind = "query"

\* The body of the resource Check is at.
BodyHere == resources[pos].body.v

\* The outcome of the rule's query on that body.
QueryHere == QueryCty(BodyHere, rule.Query)

\* The outcome of the rule's compare function on the result of the query.
CompareHere == CallCompareFunc(rule.CompareFunc, QueryHere.val, rule.expected)

\* The rule's query names, first, a field that the body object lacks.
BodyLacksField ==
  /\ AtQueriedResource
  /\ BodyHere.k = "object"
  /\ IsFieldSeg(nextQuerySegment(rule.Query).segment)
  /\ nextQuerySegment(rule.Query).segment \notin DOMAIN BodyHere.attrs

HardQueryError ==
  /\ AtQueriedResource
  /\ IsTypeMismatch(QueryHere) \/ IsIndexOutOfRange(QueryHere)

\* The query succeeds and the compare function returns an error.
CompareError ==
  /\ AtQueriedResource
  /\ QueryHere.kind = "ok"
  /\ CompareHere.kind = "ok" /\ CompareHere.val.err # Nil

\* The query succeeds and the compare function returns (false, message, nil).
FailedVerdict ==
  /\ AtQueriedResource
  /\ QueryHere.kind = "ok"
  /\ CompareHere.kind = "ok" /\ CompareHere.val.err = Nil /\ ~CompareHere.val.passed

\* C19: a type-mismatch or index-out-of-range error of QueryCty, and an error of the
\* compare function, make Check return an error, emit no issue for the resource and
\* process no later resource; a verdict (false, message, nil) emits exactly one issue
\* with that message and Check goes on, to return nil after the last resource.
C19_HardErrorsAbortTheCheck ==
  [][/\ (HardQueryError \/ CompareError) =>
          /\ pc' = "done" /\ ret'.kind = "err"
          /\ issues' = issues /\ pos' = pos
     /\ FailedVerdict =>
          /\ pc' = "loop" /\ pos' = pos + 1 /\ ret' = NoOut
          /\ issues' = Append(issues, Issue(pos, CompareHere.val.msg, "body.Range"))
     /\ pc = "done" => (pos' = pos /\ issues' = issues /\ ret' = ret)
     /\ (pc = "loop" /\ pos > Len(resources)) => ret' = Ok(Nil)]_vars

\* EachIsOneOf on a string: after one issue for the first resource, whose list does
\* not match, the second resource ends the check with the error of the compare
\* function.
C19_Witness ==
  /\ pc = "done" /\ ret.kind = "err"
  /\ ret.err = Errorf("could not compare values: %w", ErrExpectedList(TString))
  /\ rule.CompareFunc = "EachIsOneOf"
  /\ Len(resources) = 2 /\ pos = 2
  /\ Len(issues) = 1 /\ issues[1].resource = 1
  /\ compared = 2

(***************************************************************************)
(* C20: the compare functions over gjson results.                          *)
(***************************************************************************)
\* The result is absent: the query found nothing at its path.
IsAbsent(r) == r = AbsentResult

\* The verdict of a must-exist function on an absent result.
MustExistFailure ==
  Ok(Verdict(FALSE, Literal("returned value does not exist but expected"), Nil))

\* C20: IsOneOfAndMustExist(r, e) is IsOneOf(r, e) when r exists and (false,
\* "returned value does not exist but expected", nil) when r is absent, and
\* EachIsOneOfAndMustExist is so against EachIsOneOf; IsOneOf and EachIsOneOf pass
\* on an absent result; Exists passes iff the result is present and NotExists iff it
\* is absent.
C20_MustExistComposesExistence ==
  /\ Returned("IsOneOfAndMustExist") =>
       out = (IF IsAbsent(val) THEN MustExistFailure ELSE ResultIsOneOf(val, expected))
  /\ Returned("EachIsOneOfAndMustExist") =>
       out = (IF IsAbsent(val) THEN MustExistFailure
              ELSE ResultEachIsOneOf(val, expected))
  /\ (Returned("gjson.IsOneOf") \/ Returned("gjson.EachIsOneOf")) =>
       (IsAbsent(val) => out = Ok(Verdict(TRUE, NoMsg, Nil)))
  /\ Returned("Exists") => (out.kind = "ok" /\ out.val.err = Nil
                              /\ (out.val.passed <=> ~IsAbsent(val)))
  /\ Returned("NotExists") => (out.kind = "ok" /\ out.val.err = Nil
                                 /\ (out.val.passed <=> IsAbsent(val)))

\* EachIsOneOfAndMustExist has failed an absent result that EachIsOneOf passes, with
\* two expected values.
C20_Witness ==
  /\ Returned("EachIsOneOfAndMustExist")
  /\ IsAbsent(val) /\ Len(expected) = 2
  /\ out = MustExistFailure
  /\ ResultEachIsOneOf(val, expected) = Ok(Verdict(TRUE, NoMsg, Nil))

(***************************************************************************)
(* C21: the recursion of QueryCty.                                         *)
(***************************************************************************)
\* The paths of the calls of QueryCty on the stack, the outermost first.
Frames == callers \o <<query>>

\* b is what is left of the path a after one or more of its segments.
IsRestOf(b, a) ==
  \E k \in 1..Len(a) : a[k] = Dot /\ b = SubSeq(a, k + 1, Len(a))

\* C21: every recursive call of QueryCty, from QueryCty or from queryList for an
\* element of a list, receives a path strictly shorter than the path of its caller
\* (what is left of it after one or more segments), so the depth of the recursion
\* is at most the number of segments of the path of the outermost call.
C21_RecursionConsumesThePath ==
  op = "QueryCty" =>
    /\ \A i \in 1..Len(callers) :
         /\ Len(Frames[i + 1]) < Len(Frames[i])
         /\ IsRestOf(Frames[i + 1], Frames[i])
         /\ Len(SplitAtDots(Frames[i + 1])) < Len(SplitAtDots(Frames[i]))
    /\ Len(Frames) <= Len(SplitAtDots(Frames[1]))

\* The call for an element of a list in the wildcard loop, two calls deep, has
\* returned a value: the recursion is as deep as the path has segments.
C21_Witness ==
  /\ Returned("QueryCty") /\ out.kind = "ok"
  /\ Len(callers) = 2
  /\ Len(SplitAtDots(callers[1])) = 3
  /\ Head(callers[2]) = "#"

(***************************************************************************)
(* C22: calls at the same time.                                            *)
(***************************************************************************)
\* What the call of a thread returns when it runs alone.
Alone(th) ==
  IF th.op = "QueryCty" THEN QueryCty(th.val, th.query)
  ELSE CallCompareFunc(th.op, th.val, th.expected)

\* The calls of QueryCty and of the compare functions.
IsEvaluation(th) == th.op \in {"QueryCty"} \cup CompareFuncs

\* C22: under every interleaving of calls of QueryCty and of the compare functions,
\* and of writes of the package variable AppFs, each call returns what it returns
\* when it runs alone, and no step changes the value, the path or the expected
\* values of a call.
C22_EvaluationsDoNotInterfere ==
  /\ [](\A t \in DOMAIN threads :
          (IsEvaluation(threads[t]) /\ threads[t].pc = "done") =>
             threads[t].out = Alone(threads[t]))
  /\ [][\A t \in DOMAIN threads :
          t \in DOMAIN threads' =>
            /\ threads'[t].val = threads[t].val
            /\ threads'[t].query = threads[t].query
            /\ threads'[t].expected = threads[t].expected]_vars

\* Two wildcard queries over the same list have returned, each its own list, and
\* AppFs was written in between.
C22_Witness ==
  /\ op = "threads"
  /\ \A t \in ThreadIds : threads[t].op = "QueryCty" /\ threads[t].pc = "done"
  /\ threads[1].val = threads[2].val
  /\ threads[1].out = Ok(Iota(2))
  /\ threads[2].out = Ok(ListOf(TString, <<SX, SX>>))
  /\ AppFs # OsFs

(***************************************************************************)
(* C23: a trailing wildcard.                                               *)
(***************************************************************************)
\* The query is a non-empty path followed by ".#".
EndsWithWildcard == Len(query) > 2 /\ SubSeq(query, Len(query) - 1, Len(query)) = <<Dot, "#">>

\* The path before the trailing ".#".
BeforeWildcard == SubSeq(query, 1, Len(query) - 2)

\* C23: when the path p resolves to a list L, the path p.# resolves with a nil
\* error to a list equal to L.
C23_TrailingWildcardIsIdentity ==
  (Returned("QueryCty") /\ EndsWithWildcard) =>
    LET l == QueryCty(val, BeforeWildcard) IN
    (l.kind = "ok" /\ IsKnownList(l.val)) => out = l

(***************************************************************************)
(* C24: the resources the rule checks.                                     *)
(***************************************************************************)
\* Check is at a resource whose type attribute evaluates to a value.
AtTypedResource ==
  /\ pc = "loop" /\ pos <= Len(resources)
  /\ resources[pos].type.present /\ ~resources[pos].type.diags

\* The value of the type attribute of the resource Check is at.
TypeHere == resources[pos].type.v

\* The text s has the form <resourceType>@<apiVersion>, with exactly one "@".
HasTypeForm(s) == Cardinality({i \in 1..Len(s) : s[i] = At}) = 1

ResourceTypeOf(s) == SubSeq(s, 1, (CHOOSE i \in 1..Len(s) : s[i] = At) - 1)

ApiVersionOf(s) == SubSeq(s, (CHOOSE i \in 1..Len(s) : s[i] = At) + 1, Len(s))

\* The texts a and b are equal but for the case of their letters.
SameIgnoringCase(a, b) == Len(a) = Len(b) /\ \A i \in 1..Len(a) : Fold(a[i]) = Fold(b[i])

\* The type value is a text of the form <resourceType>@<apiVersion> for the rule's
\* resource type and a version within the rule's bounds, in the order of strings.
TypeMatchesRule ==
  /\ TypeHere.k = "string"
  /\ HasTypeForm(TypeHere.str)
  /\ SameIgnoringCase(ResourceTypeOf(TypeHere.str), rule.resourceType)
  /\ rule.minimumApiVersion # Empty =>
       ~StringLess(ApiVersionOf(TypeHere.str), rule.minimumApiVersion)
  /\ rule.maximumApiVersion # Empty =>
       ~StringLess(rule.maximumApiVersion, ApiVersionOf(TypeHere.str))

\* Check goes on to the next resource: no issue, no comparison, nothing returned.
Skipped ==
  /\ pc' = "loop" /\ pos' = pos + 1
  /\ issues' = issues /\ compared' = compared /\ ret' = NoOut

\* C24: the rule checks the body of a resource only when its type value has the form
\* <resourceType>@<apiVersion> with exactly one "@", the resource type is the rule's
\* but for case and the version is within the rule's bounds, an empty bound being
\* none; every other resource is skipped without an issue and without an error.
C24_OnlyMatchingTypesAreChecked ==
  [][(AtTypedResource /\ ~TypeMatchesRule) => Skipped]_vars

(***************************************************************************)
(* C25: resources without a type or a body attribute.                      *)
(***************************************************************************)
\* Check is at a resource that has no type attribute.
LacksType == pc = "loop" /\ pos <= Len(resources) /\ ~resources[pos].type.present

\* Check is at a resource whose type passes the rule's filter and that has no body
\* attribute.
LacksBody == AtTypedResource /\ TypeMatchesRule /\ ~resources[pos].body.present

\* Check emits one issue with the text m for the resource and goes on to the next.
EmitsAndGoesOn(m) ==
  /\ issues' = Append(issues, Issue(pos, Literal(m), "DefRange"))
  /\ pc' = "loop" /\ pos' = pos + 1 /\ ret' = NoOut /\ compared' = compared

\* The resource has no type attribute, or a type the rule accepts and no body
\* attribute.
IsIncomplete(b) ==
  \/ ~b.type.present
  \/ /\ ~b.type.diags /\ b.type.v.k = "string"
     /\ checkAzApiType(b.type.v.str, rule.resourceType, rule.minimumApiVersion,
                       rule.maximumApiVersion)
     /\ ~b.body.present

\* C25: a resource without a type attribute gets the issue "Resource does not have a
\* `type` attribute" and one whose type passes the filter but that has no body
\* attribute the issue "Resource does not have a `body` attribute", and Check goes
\* on to the next resource; only blocks whose first label is azapi_resource are
\* resources, so no other block gets an issue; a run over such resources returns
\* nil.
C25_MissingAttributesAreIssues ==
  /\ [][/\ LacksType => EmitsAndGoesOn("Resource does not have a {bq}type{bq} attribute")
        /\ LacksBody => EmitsAndGoesOn("Resource does not have a {bq}body{bq} attribute")]_vars
  /\ [](pc \in {"loop", "done"} =>
         /\ \A i \in 1..Len(resources) : resources[i].label = "azapi_resource"
         /\ Len(resources) =
              Cardinality({i \in 1..Len(content.blocks) :
                             content.blocks[i].label = "azapi_resource"})
         /\ \A i \in 1..Len(issues) : issues[i].resource \in 1..Len(resources))
  /\ []((pc = "done" /\ ~content.diags
           /\ \A i \in 1..Len(resources) : IsIncomplete(resources[i])) =>
          (ret = Ok(Nil) /\ Len(issues) = Len(resources)))

\* A module with a resource without a type and a resource without a body: two
\* issues, nil returned.
C25_Witness ==
  /\ pc = "done" /\ ret = Ok(Nil)
  /\ resources = <<Block(LabelOne, NoAttr, BodyAY), Block(LabelOne, TypeT2, NoAttr)>>
  /\ issues = <<Issue(1, Literal("Resource does not have a {bq}type{bq} attribute"),
                      "DefRange"),
                Issue(2, Literal("Resource does not have a {bq}body{bq} attribute"),
                      "DefRange")>>

(***************************************************************************)
(* C26: the issues of one run of Check.                                    *)
(***************************************************************************)
\* The sequence a is the beginning of the sequence b.
IsPrefix(a, b) == Len(a) <= Len(b) /\ SubSeq(b, 1, Len(a)) = a

\* The number of resources Check has dealt with: those before the one it is at, or
\* at which it returned an error.
Processed == IF pos = 0 THEN 0 ELSE pos - 1

\* C26: in a run of Check every resource has at most one issue, the issues are in
\* the order of the resources, there are never more issues than resources processed
\* so far, the issues emitted are kept, and after Check has returned, with an error
\* or without, no issue is emitted.
C26_IssuesFollowTheResources ==
  /\ [](/\ \A i \in 1..Len(issues) : \A j \in 1..Len(issues) :
              i < j => issues[i].resource < issues[j].resource
        /\ \A i \in 1..Len(issues) : issues[i].resource \in 1..Len(resources)
        /\ Len(issues) <= Processed
        /\ \A i \in 1..Len(issues) : issues[i].resource <= Processed)
  /\ [][/\ IsPrefix(issues, issues')
        /\ Len(issues') <= Len(issues) + 1
        /\ pc = "done" => issues' = issues]_vars

\* Check has returned the error of the query on the second resource and keeps the
\* issue of the first.
C26_Witness ==
  /\ pc = "done" /\ ret.kind = "err"
  /\ ret.err = Errorf("could not query value: %w", ErrNotObjectOrMap)
  /\ pos = 2 /\ Len(resources) = 2
  /\ Len(issues) = 1 /\ issues[1].resource = 1

(***************************************************************************)
(* C27: totality of QueryCty.                                              *)
(***************************************************************************)
\* C27: for every value and every path QueryCty returns a value with a nil error or
\* an error, and never panics: not for a field segment on a value of a map type, a
\* wildcard over an empty list, a wildcard whose results differ in type, or a
\* numeric segment below zero.
C27_QueryCtyIsTotal ==
  Returned("QueryCty") => out.kind \in {"ok", "err"}

(***************************************************************************)
(* C28: EachIsOneOf over a gjson array.                                    *)
(***************************************************************************)
\* The result is a JSON array.
IsArrayResult(r) == r.Type = "JSON" /\ r.Raw # Empty /\ r.Raw[1].json.g = "slice"

\* The Go values of the elements of an array result.
ArrayElements(r) == r.Raw[1].json.elems

\* The Go value x is the value of one of the expected results.
IsExpectedValue(x) == \E i \in 1..Len(expected) : ResultValue(expected[i]) = x

\* C28: EachIsOneOf on an array result of n >= 0 elements passes iff each of the n
\* elements is equal to an expected value; so the verdict for the one-element array
\* [x] is that of x, as for the array [x, x].
C28_EachComparesTheElements ==
  (Returned("gjson.EachIsOneOf") /\ IsArrayResult(val)) =>
    /\ out.kind = "ok" /\ out.val.err = Nil
    /\ out.val.passed <=>
         \A k \in 1..Len(ArrayElements(val)) : IsExpectedValue(ArrayElements(val)[k])

(***************************************************************************)
(* C29: Unknown and Null values never pass a membership test.              *)
(***************************************************************************)
\* The value is Unknown or Null.
IsUnknownOrNull(v) == v.k \in {"unknown", "null"}

\* The call has returned a verdict that passes.
Passes == out.kind = "ok" /\ out.val.passed

\* C29: IsOneOf never passes an actual value that is Unknown or Null, whatever the
\* expected values, a Null or an Unknown among them; so EachIsOneOf never passes a
\* list that holds a Null or Unknown element, and it passes the empty list for every
\* expected set.
C29_UnknownAndNullNeverPass ==
  /\ (Returned("IsOneOf") /\ IsUnknownOrNull(val)) => ~Passes
  /\ (Returned("EachIsOneOf") /\ val.k = "list") =>
       /\ (\E i \in 1..Len(val.elems) : IsUnknownOrNull(val.elems[i])) => ~Passes
       /\ val.elems = << >> => out = Ok(Verdict(TRUE, NoMsg, Nil))

\* EachIsOneOf has not passed a list of "x" and a Null string although both are
\* among the expected values.
C29_Witness ==
  /\ Returned("EachIsOneOf")
  /\ val = ListOf(TString, <<SX, NullVal(TString)>>)
  /\ expected = <<SX, NullVal(TString)>>
  /\ ~Passes

(***************************************************************************)
(* C30: path resolution composes.                                          *)
(***************************************************************************)
\* The places k of the query where it splits into a non-empty wildcard-free path,
\* a "." and a non-empty path.
SplitPlaces ==
  {k \in 2..(Len(query) - 1) :
     /\ query[k] = Dot
     /\ \A i \in 1..(k - 1) : query[i] # "#"}

\* Two outcomes are the same: the same value, or errors of the same kind.
SameOutcome(a, b) ==
  /\ a.kind = b.kind
  /\ a.kind = "ok" => a.val = b.val
  /\ a.kind = "err" => a.err.e = b.err.e

\* C30: when the wildcard-free non-empty path p resolves on v to a known value w,
\* then for every non-empty path q the path p.q has on v the outcome that q has on
\* w: the same value, or the same kind of error.
C30_PathsCompose ==
  Returned("QueryCty") =>
    \A k \in SplitPlaces :
      LET w == QueryCty(val, SubSeq(query, 1, k - 1)) IN
      (w.kind = "ok" /\ w.val.k # "unknown") =>
        SameOutcome(out, QueryCty(w.val, SubSeq(query, k + 1, Len(query))))

====
